---- MODULE Spec2Model ----
(***************************************************************************)
(* The Stipple bytecode virtual machine (src/src/vm.c, with the types and  *)
(* constants of stipple.h) as a state machine.                             *)
(*                                                                         *)
(* The engine state vm_state_t is the record `vm`.  The big fixed arrays   *)
(* (g_vars, g_membuf, stack_frames, the slots of a frame, the bytes of a   *)
(* buffer, the program bytes) are kept as sparse maps: an index that is    *)
(* absent from the map holds the all-zero element that vm_init's memset    *)
(* leaves there, and a map never stores that element explicitly, so two    *)
(* equal C states are equal model states.                                  *)
(*                                                                         *)
(* A 32-bit word (the val union of var_value_t, an instruction payload)    *)
(* is the tuple of its four bytes in memory order.  The host is            *)
(* little-endian: byte 1 of the tuple is the least significant one.        *)
(* Enumerations keep their C values.                                       *)
(***************************************************************************)
EXTENDS Integers, Sequences, FiniteSets, TLC

VARIABLES
    vm,          \* the vm_state_t the host owns
    out,         \* the bytes written to stdout so far
    running,     \* TRUE while the host is inside vm_run's loop
    last_call,   \* the API function that acted last
    step_status, \* the status the most recent vm_step call returned
    ret,         \* what the most recent completed call returned (main: its exit status)
    loads,       \* how many times the host has called vm_load_program
    msg,         \* the last vm_get_error_string call: argument and result
    legacy,      \* the global tables of the legacy engine (src/vm.c)
    calls,       \* history: the return addresses of the CALLs executed and
                 \* not yet returned from, the oldest first
    dumps        \* how many times the host has called vm_dump_state or
                 \* vm_disassemble_instruction

vars ==
    <<vm, out, running, last_call, step_status, ret, loads, msg, legacy, calls,
      dumps>>

(***************************************************************************)
(* Configuration constants (stipple.h)                                     *)
(***************************************************************************)
G_VARS_COUNT == 256
G_MEMBUF_COUNT == 256
MEMBUF_U8_COUNT == 256
MEMBUF_U16_COUNT == 128
MEMBUF_I32_COUNT == 64
MEMBUF_U32_COUNT == 64
MEMBUF_F32_COUNT == 64
STACK_DEPTH == 32
STACK_VAR_COUNT == 16
STACK_LOCALS_COUNT == 64
PROGRAM_MAX_SIZE == 65536

\* Condition flags
FLAG_ZERO == 1
FLAG_LESS == 2
FLAG_GREATER == 4

\* vm_status_t
VM_OK == 0
VM_ERR_STACK_OVERFLOW == 1
VM_ERR_STACK_UNDERFLOW == 2
VM_ERR_DIV_BY_ZERO == 3
VM_ERR_INVALID_OPCODE == 4
VM_ERR_TYPE_MISMATCH == 5
VM_ERR_BOUNDS == 6
VM_ERR_INVALID_GLOBAL_IDX == 7
VM_ERR_INVALID_LOCAL_IDX == 8
VM_ERR_INVALID_STACK_VAR_IDX == 9
VM_ERR_INVALID_BUFFER_IDX == 10
VM_ERR_INVALID_BUFFER_POS == 11
VM_ERR_INVALID_PC == 12
VM_ERR_INVALID_INSTRUCTION == 13
VM_ERR_PROGRAM_TOO_LARGE == 14
VM_ERR_OVERFLOW == 15
VM_ERR_HALT == 16

\* var_value_type_t (the tags the engine uses)
V_VOID == 0
V_I32 == 1
V_U32 == 2
V_FLOAT == 3

\* membuf_type_t
MB_VOID == 0
MB_U8 == 1
MB_U16 == 2
MB_I32 == 3
MB_U32 == 4
MB_FLOAT == 5

\* opcode_t
OP_NOP == 0
OP_HALT == 1
OP_JMP == 2
OP_JZ == 3
OP_JNZ == 4
OP_JLT == 5
OP_JGT == 6
OP_JLE == 7
OP_JGE == 8
OP_CALL == 9
OP_RET == 10
OP_LOAD_G == 16
OP_LOAD_L == 17
OP_LOAD_S == 18
OP_LOAD_I_I32 == 19
OP_LOAD_I_U32 == 20
OP_LOAD_I_F32 == 21
OP_LOAD_RET == 22
OP_STORE_G == 32
OP_STORE_L == 33
OP_STORE_S == 34
OP_STORE_RET == 35
OP_ADD_I32 == 48
OP_SUB_I32 == 49
OP_MUL_I32 == 50
OP_DIV_I32 == 51
OP_MOD_I32 == 52
OP_NEG_I32 == 53
OP_ADD_U32 == 54
OP_SUB_U32 == 55
OP_MUL_U32 == 56
OP_DIV_U32 == 57
OP_MOD_U32 == 58
OP_ADD_F32 == 64
OP_SUB_F32 == 65
OP_MUL_F32 == 66
OP_DIV_F32 == 67
OP_NEG_F32 == 68
OP_ABS_F32 == 69
OP_SQRT_F32 == 70
OP_AND_U32 == 80
OP_OR_U32 == 81
OP_XOR_U32 == 82
OP_NOT_U32 == 83
OP_SHL_U32 == 84
OP_SHR_U32 == 85
OP_CMP_I32 == 96
OP_CMP_U32 == 97
OP_CMP_F32 == 98
OP_I32_TO_U32 == 112
OP_U32_TO_I32 == 113
OP_I32_TO_F32 == 114
OP_U32_TO_F32 == 115
OP_F32_TO_I32 == 116
OP_F32_TO_U32 == 117
OP_BUF_READ == 128
OP_BUF_WRITE == 129
OP_BUF_LEN == 130
OP_BUF_CLEAR == 131
OP_STR_CAT == 144
OP_STR_COPY == 145
OP_STR_LEN == 146
OP_STR_CMP == 147
OP_STR_CHR == 148
OP_STR_SET_CHR == 149
OP_PRINT_I32 == 160
OP_PRINT_U32 == 161
OP_PRINT_F32 == 162
OP_PRINT_STR == 163
OP_PRINTLN == 164
OP_READ_I32 == 165
OP_READ_U32 == 166
OP_READ_F32 == 167
OP_READ_STR == 168

\* No status: the call returns nothing, or has not returned
NO_STATUS == VM_ERR_HALT + 1

\* Not a status either: the process was killed by SIGFPE inside vm_step
SIGFPE == VM_ERR_HALT + 2

(***************************************************************************)
(* 32-bit words: uint32_t / int32_t arithmetic on the four bytes           *)
(***************************************************************************)
Zero32 == <<0, 0, 0, 0>>

\* The low and the high 16 bits of a word.
Lo16(w) == w[1] + 256 * w[2]
Hi16(w) == w[3] + 256 * w[4]

\* The word with the given halves, each taken modulo 2^16.
MkWord(hi, lo) ==
    << lo % 256, (lo \div 256) % 256, hi % 256, (hi \div 256) % 256 >>

\* A natural number below 2^31 as a word, and back.
FromNat(n) == MkWord(n \div 65536, n % 65536)
FitsNat(w) == w[4] < 128
ToNat(w) == Hi16(w) * 65536 + Lo16(w)

\* uint32 comparison of a word with a natural number below 2^31.
U32GeNat(w, n) == (~FitsNat(w)) \/ ToNat(w) >= n

\* a + b, ~a, -a, a - b modulo 2^32
AddW(a, b) ==
    LET lo == Lo16(a) + Lo16(b)
    IN  MkWord(Hi16(a) + Hi16(b) + lo \div 65536, lo)
NotW(a) == << 255 - a[1], 255 - a[2], 255 - a[3], 255 - a[4] >>
NegW(a) == AddW(NotW(a), FromNat(1))
SubW(a, b) == AddW(a, NegW(b))

\* a * b modulo 2^32, by columns of byte products
MulW(a, b) ==
    LET c0 == a[1] * b[1]
        c1 == a[1] * b[2] + a[2] * b[1] + c0 \div 256
        c2 == a[1] * b[3] + a[2] * b[2] + a[3] * b[1] + c1 \div 256
        c3 == a[1] * b[4] + a[2] * b[3] + a[3] * b[2] + a[4] * b[1] + c2 \div 256
    IN  << c0 % 256, c1 % 256, c2 % 256, c3 % 256 >>

\* a < b as uint32_t and as int32_t (two's complement)
LtU(a, b) == Hi16(a) < Hi16(b) \/ (Hi16(a) = Hi16(b) /\ Lo16(a) < Lo16(b))
IsNeg(w) == w[4] >= 128
LtS(a, b) == IF IsNeg(a) # IsNeg(b) THEN IsNeg(a) ELSE LtU(a, b)

INT32_MIN == <<0, 0, 0, 128>>
MinusOne == <<255, 255, 255, 255>>

\* Shifts by one bit; right shifts fill with zero
Shl1(w) == AddW(w, w)
Shr1(w) == MkWord(Hi16(w) \div 2, Lo16(w) \div 2 + (Hi16(w) % 2) * 32768)

\* Bit i (0 = least significant) of a word
Bit(w, i) == (w[(i \div 8) + 1] \div (2 ^ (i % 8))) % 2

\* uint32 division a / b and a % b for b # 0.  Operands below 2^31 divide
\* as naturals; a divisor from 2^31 on goes into a at most once; otherwise
\* a \div 2 is divided and the last bit of a is brought down.
DivModU(a, b) ==
    IF IsNeg(b)
    THEN IF LtU(a, b) THEN [q |-> Zero32, r |-> a]
         ELSE [q |-> FromNat(1), r |-> SubW(a, b)]
    ELSE IF FitsNat(a)
    THEN [q |-> FromNat(ToNat(a) \div ToNat(b)), r |-> FromNat(ToNat(a) % ToNat(b))]
    ELSE LET h == ToNat(Shr1(a))
             q0 == FromNat(h \div ToNat(b))
             r0 == AddW(Shl1(FromNat(h % ToNat(b))), FromNat(Bit(a, 0)))
         IN  IF LtU(r0, b) THEN [q |-> Shl1(q0), r |-> r0]
             ELSE [q |-> AddW(Shl1(q0), FromNat(1)), r |-> SubW(r0, b)]

DivU(a, b) == DivModU(a, b).q
ModU(a, b) == DivModU(a, b).r

\* 2^k as a word, and shifts by k bits (k < 32)
Pow2W(k) == IF k = 31 THEN INT32_MIN ELSE FromNat(2 ^ k)
ShlW(w, k) == MulW(w, Pow2W(k))
\* A right shift that propagates the sign bit
M_ShrW_Arithmetic(w, k) ==
    IF IsNeg(w) THEN NotW(DivU(NotW(w), Pow2W(k))) ELSE DivU(w, Pow2W(k))

ShrW(w, k) == DivU(w, Pow2W(k))

\* int32 division truncates toward zero; the remainder has the dividend's
\* sign.  INT32_MIN / -1 has no int32 result: this is what a machine whose
\* divide instruction does not trap delivers.
AbsW(w) == IF IsNeg(w) THEN NegW(w) ELSE w
DivS(a, b) ==
    IF IsNeg(a) # IsNeg(b) THEN NegW(DivU(AbsW(a), AbsW(b)))
    ELSE DivU(AbsW(a), AbsW(b))
ModS(a, b) ==
    IF IsNeg(a) THEN NegW(ModU(AbsW(a), AbsW(b))) ELSE ModU(AbsW(a), AbsW(b))

\* Bitwise and / or / xor, byte by byte
RECURSIVE AndBits(_, _)
AndBits(x, y) ==
    IF x = 0 \/ y = 0 THEN 0
    ELSE (x % 2) * (y % 2) + 2 * AndBits(x \div 2, y \div 2)

AndW(a, b) ==
    << AndBits(a[1], b[1]), AndBits(a[2], b[2]),
       AndBits(a[3], b[3]), AndBits(a[4], b[4]) >>
OrW(a, b) ==
    << a[1] + b[1] - AndBits(a[1], b[1]), a[2] + b[2] - AndBits(a[2], b[2]),
       a[3] + b[3] - AndBits(a[3], b[3]), a[4] + b[4] - AndBits(a[4], b[4]) >>
XorW(a, b) ==
    << a[1] + b[1] - 2 * AndBits(a[1], b[1]), a[2] + b[2] - 2 * AndBits(a[2], b[2]),
       a[3] + b[3] - 2 * AndBits(a[3], b[3]), a[4] + b[4] - 2 * AndBits(a[4], b[4]) >>

(***************************************************************************)
(* print_i32 / print_u32: the bytes written to stdout                      *)
(***************************************************************************)
\* value / 10 and value % 10
Div10(w) ==
    LET t == (Hi16(w) % 10) * 65536 + Lo16(w)
    IN  [q |-> MkWord(Hi16(w) \div 10, t \div 10), r |-> t % 10]

\* The decimal digits of a non-zero value, most significant first
RECURSIVE Digits(_)
Digits(w) ==
    IF w = Zero32 THEN <<>> ELSE Digits(Div10(w).q) \o << 48 + Div10(w).r >>

print_u32(w) == IF w = Zero32 THEN <<48>> ELSE Digits(w)

print_i32(w) == IF IsNeg(w) THEN <<45>> \o Digits(NegW(w)) ELSE print_u32(w)

(***************************************************************************)
(* IEEE 754 single precision on the bit pattern, rounding to nearest, ties *)
(* to even.  A finite float is sig * 2^scale with sig < 2^24; every        *)
(* operation forms its exact result as an integer, a scale and a sticky    *)
(* flag for the bits below the integer, and F32Round rounds that once.     *)
(* What IEEE 754 and C leave to the platform is the record `fpu`:          *)
(*   fpu.nan_sign  the sign of the NaN an invalid operation produces;      *)
(*   fpu.second    with two NaN operands, whether the second one is the    *)
(*                 one handed through;                                     *)
(*   fpu.sat       whether a float-to-integer conversion of a value the    *)
(*                 target type cannot hold saturates (AArch64) or gives    *)
(*                 what cvttss2si leaves in the register (x86-64).         *)
(***************************************************************************)
F32Sign(w) == w[4] \div 128
F32Exp(w) == (w[4] % 128) * 2 + w[3] \div 128
F32Man(w) == (w[3] % 128) * 65536 + w[2] * 256 + w[1]

F32Pack(s, e, m) ==
    << m % 256, (m \div 256) % 256,
       ((m \div 65536) % 128) + (e % 2) * 128, (e \div 2) + s * 128 >>

F32IsNaN(w) == F32Exp(w) = 255 /\ F32Man(w) # 0
\* value == 0.0f
F32IsZero(w) == F32Exp(w) = 0 /\ F32Man(w) = 0

\* a < b: false when either is a NaN; -0 and +0 are equal
F32Key(w) ==
    IF F32Sign(w) = 1 THEN 0 - (F32Exp(w) * 8388608 + F32Man(w))
    ELSE F32Exp(w) * 8388608 + F32Man(w)
F32Lt(a, b) == ~F32IsNaN(a) /\ ~F32IsNaN(b) /\ F32Key(a) < F32Key(b)

\* -value and fabsf(value)
F32Neg(w) == [w EXCEPT ![4] = (@ + 128) % 256]
F32Abs(w) == [w EXCEPT ![4] = @ % 128]

F32IsInf(w) == F32Exp(w) = 255 /\ F32Man(w) = 0
F32Inf(s) == F32Pack(s, 255, 0)

\* The floats that are integers of magnitude below 2^24, and their magnitude
F32IsInt(w) ==
    \/ F32IsZero(w)
    \/ /\ F32Exp(w) \in 127 .. 150
       /\ F32Man(w) % (2 ^ (150 - F32Exp(w))) = 0
F32Int(w) ==
    IF F32IsZero(w) THEN 0
    ELSE (8388608 + F32Man(w)) \div (2 ^ (150 - F32Exp(w)))

RECURSIVE Log2(_)
Log2(n) == IF n < 2 THEN 0 ELSE 1 + Log2(n \div 2)

\* The float with sign s whose magnitude is the integer n < 2^24
F32OfInt(s, n) ==
    IF n = 0 THEN F32Pack(s, 0, 0)
    ELSE F32Pack(s, 127 + Log2(n), (n - 2 ^ Log2(n)) * (2 ^ (23 - Log2(n))))

\* A finite float is F32Sig * 2^F32Scale; a subnormal has no hidden bit
F32Sig(w) == IF F32Exp(w) = 0 THEN F32Man(w) ELSE 8388608 + F32Man(w)
F32Scale(w) == IF F32Exp(w) = 0 THEN 0 - 149 ELSE F32Exp(w) - 150

\* The same value with the significand shifted up into [2^23, 2^24)
NormSig(w) == F32Sig(w) * (2 ^ (23 - Log2(F32Sig(w))))
NormScale(w) == F32Scale(w) - (23 - Log2(F32Sig(w)))

\* The float nearest to (sig + d) * 2^scale, where 0 <= d < 1 and d > 0 iff
\* sticky; ties go to the even significand.  sig < 2^30, and sig >= 2^25
\* when sticky.  The significand keeps 24 bits, or what lies above 2^-149.
F32Round(s, sig, scale, sticky) ==
    IF sig = 0 THEN F32Pack(s, 0, 0)
    ELSE LET len == Log2(sig) + 1
             shift == IF len - 24 > (0 - 149) - scale
                      THEN len - 24 ELSE (0 - 149) - scale
         IN  IF shift >= 31 THEN F32Pack(s, 0, 0)
             ELSE LET q == IF shift > 0 THEN sig \div (2 ^ shift)
                           ELSE sig * (2 ^ (0 - shift))
                      r == IF shift > 0 THEN sig % (2 ^ shift) ELSE 0
                      half == IF shift > 0 THEN 2 ^ (shift - 1) ELSE 1
                      up == shift > 0
                            /\ (r > half \/ (r = half /\ (sticky \/ q % 2 = 1)))
                      n == IF up THEN q + 1 ELSE q
                      e == scale + shift + 149 + n \div 8388608
                  IN  IF e >= 255 THEN F32Inf(s) ELSE F32Pack(s, e, n % 8388608)

\* The NaN an operation delivers: a NaN operand with its quiet bit set, or
\* the platform's default NaN when the operation itself is invalid
F32Quiet(w) == F32Pack(F32Sign(w), 255, (F32Man(w) % 4194304) + 4194304)
F32NaN(a, b, fpu) ==
    IF F32IsNaN(a) /\ F32IsNaN(b) THEN F32Quiet(IF fpu.second THEN b ELSE a)
    ELSE IF F32IsNaN(a) THEN F32Quiet(a)
    ELSE IF F32IsNaN(b) THEN F32Quiet(b)
    ELSE F32Pack(fpu.nan_sign, 255, 4194304)

\* a + b for finite a and b: the operand with the smaller scale is shifted
\* down under three guard bits
F32AddFinite(a, b) ==
    LET big == IF F32Scale(a) >= F32Scale(b) THEN a ELSE b
        small == IF F32Scale(a) >= F32Scale(b) THEN b ELSE a
        d == F32Scale(big) - F32Scale(small)
        x == F32Sig(big) * 8
        y8 == F32Sig(small) * 8
        y == IF d > 27 THEN 0 ELSE y8 \div (2 ^ d)
        sticky == IF d > 27 THEN y8 # 0 ELSE y8 % (2 ^ d) # 0
        scale == F32Scale(big) - 3
    IN  IF F32Sign(a) = F32Sign(b) THEN F32Round(F32Sign(a), x + y, scale, sticky)
        ELSE IF sticky THEN F32Round(F32Sign(big), x - y - 1, scale, TRUE)
        ELSE IF x = y THEN F32Pack(0, 0, 0)
        ELSE IF x > y THEN F32Round(F32Sign(big), x - y, scale, FALSE)
        ELSE F32Round(F32Sign(small), y - x, scale, FALSE)

F32Add(a, b, fpu) ==
    IF F32IsNaN(a) \/ F32IsNaN(b) THEN F32NaN(a, b, fpu)
    ELSE IF F32IsInf(a)
    THEN IF F32IsInf(b) /\ F32Sign(a) # F32Sign(b) THEN F32NaN(a, b, fpu) ELSE a
    ELSE IF F32IsInf(b) THEN b
    ELSE F32AddFinite(a, b)

F32Sub(a, b, fpu) ==
    IF F32IsNaN(a) \/ F32IsNaN(b) THEN F32NaN(a, b, fpu)
    ELSE F32Add(a, F32Neg(b), fpu)

\* a * b: the 48-bit product of the significands in two 24-bit halves
F32Mul(a, b, fpu) ==
    LET s == (F32Sign(a) + F32Sign(b)) % 2
    IN  IF F32IsNaN(a) \/ F32IsNaN(b) THEN F32NaN(a, b, fpu)
        ELSE IF F32IsInf(a) \/ F32IsInf(b)
        THEN IF F32IsZero(a) \/ F32IsZero(b) THEN F32NaN(a, b, fpu) ELSE F32Inf(s)
        ELSE IF F32IsZero(a) \/ F32IsZero(b) THEN F32Pack(s, 0, 0)
        ELSE LET x == NormSig(a)
                 y == NormSig(b)
                 mid == (x \div 4096) * (y % 4096) + (x % 4096) * (y \div 4096)
                 losum == (x % 4096) * (y % 4096) + (mid % 4096) * 4096
                 lo == losum % 16777216
                 hi == (x \div 4096) * (y \div 4096) + mid \div 4096
                       + losum \div 16777216
             IN  F32Round(s, hi * 32 + lo \div 524288,
                          NormScale(a) + NormScale(b) + 19, lo % 524288 # 0)

\* a / b for b # 0.0f: 28 quotient bits by long division, seven at a time
F32Div(a, b, fpu) ==
    LET s == (F32Sign(a) + F32Sign(b)) % 2
    IN  IF F32IsNaN(a) \/ F32IsNaN(b) THEN F32NaN(a, b, fpu)
        ELSE IF F32IsInf(a)
        THEN IF F32IsInf(b) THEN F32NaN(a, b, fpu) ELSE F32Inf(s)
        ELSE IF F32IsInf(b) \/ F32IsZero(a) THEN F32Pack(s, 0, 0)
        ELSE LET x == NormSig(a)
                 y == NormSig(b)
                 r0 == x % y
                 r1 == (r0 * 128) % y
                 r2 == (r1 * 128) % y
                 r3 == (r2 * 128) % y
                 r4 == (r3 * 128) % y
                 q == ((((x \div y) * 128 + (r0 * 128) \div y) * 128
                        + (r1 * 128) \div y) * 128
                       + (r2 * 128) \div y) * 128 + (r3 * 128) \div y
             IN  F32Round(s, q, NormScale(a) - NormScale(b) - 28, r4 # 0)

\* One step of the square root: four more bits g of the radicand give two
\* more bits of the root
SqrtStep(st, g) ==
    LET rem == st.rem * 16 + g
        d == CHOOSE k \in 0 .. 3 :
               /\ k * (8 * st.root + k) <= rem
               /\ (k = 3 \/ (k + 1) * (8 * st.root + k + 1) > rem)
    IN  [root |-> 4 * st.root + d, rem |-> rem - d * (8 * st.root + d)]

RECURSIVE SqrtDigits(_, _)
SqrtDigits(st, gs) ==
    IF gs = <<>> THEN st ELSE SqrtDigits(SqrtStep(st, Head(gs)), Tail(gs))

\* sqrtf: the 26-bit integer root of sig * 2^27 or sig * 2^28, whichever
\* leaves an even scale
F32Sqrt(a, fpu) ==
    IF F32IsNaN(a) THEN F32NaN(a, a, fpu)
    ELSE IF F32IsZero(a) \/ a = F32Inf(0) THEN a
    ELSE IF F32Sign(a) = 1 THEN F32NaN(a, a, fpu)
    ELSE LET x == NormSig(a)
             odd == NormScale(a) % 2 # 0
             t == IF odd THEN x \div 2 ELSE x
             u == IF odd THEN (x % 2) * 8 ELSE 0
             k == IF odd THEN 27 ELSE 28
             gs == [i \in 1 .. 13 |->
                      IF i <= 6 THEN (t \div (16 ^ (6 - i))) % 16
                      ELSE IF i = 7 THEN u ELSE 0]
             st == SqrtDigits([root |-> 0, rem |-> 0], gs)
         IN  F32Round(0, st.root, (NormScale(a) - k) \div 2, st.rem # 0)

\* 1e-6f
F32Epsilon == <<189, 55, 134, 53>>

\* The float nearest to the uint32 word w, with sign s
F32OfMag(s, w) ==
    IF FitsNat(w) /\ ToNat(w) < 1073741824 THEN F32Round(s, ToNat(w), 0, FALSE)
    ELSE F32Round(s, ToNat(DivU(w, FromNat(16))), 4, ToNat(ModU(w, FromNat(16))) # 0)

\* (float)i32 and (float)u32
F32OfI32(w) == F32OfMag(IF IsNeg(w) THEN 1 ELSE 0, AbsW(w))
F32OfU32(w) == F32OfMag(0, w)

\* The low 32 bits of the magnitude of a finite float, truncated to an
\* integer
F32Trunc(w) ==
    LET m == 8388608 + F32Man(w)
        e == F32Exp(w)
    IN  IF e < 127 THEN Zero32
        ELSE IF e <= 150 THEN FromNat(m \div (2 ^ (150 - e)))
        ELSE IF e < 182 THEN ShlW(FromNat(m), e - 150)
        ELSE Zero32

\* (int32_t)f32: truncation where the truncated value is an int32_t.  Any
\* other conversion is undefined: cvttss2si delivers INT32_MIN, fcvtzs
\* the nearest int32_t, and 0 for a NaN.
F32ToI32(w, fpu) ==
    IF F32Exp(w) <= 157
    THEN IF F32Sign(w) = 1 THEN NegW(F32Trunc(w)) ELSE F32Trunc(w)
    ELSE IF w = F32Pack(1, 158, 0) THEN INT32_MIN
    ELSE IF ~fpu.sat THEN INT32_MIN
    ELSE IF F32IsNaN(w) THEN Zero32
    ELSE IF F32Sign(w) = 1 THEN INT32_MIN
    ELSE NotW(INT32_MIN)

\* (uint32_t)f32: truncation where the truncated value is a uint32_t.  Any
\* other conversion is undefined: x86-64 converts to int64_t with
\* cvttss2si, which delivers INT64_MIN for what an int64_t cannot hold,
\* and keeps the low half; fcvtzu delivers the nearest uint32_t, and 0
\* for a NaN.
F32ToU32(w, fpu) ==
    IF F32Exp(w) < 127 THEN Zero32
    ELSE IF F32Sign(w) = 0 /\ F32Exp(w) <= 158 THEN F32Trunc(w)
    ELSE IF fpu.sat
    THEN IF F32IsNaN(w) \/ F32Sign(w) = 1 THEN Zero32 ELSE MinusOne
    ELSE IF F32Exp(w) = 255 THEN Zero32
    ELSE IF F32Sign(w) = 1 THEN NegW(F32Trunc(w))
    ELSE F32Trunc(w)

\* 1000000.0f
F32Million == <<0, 36, 116, 73>>

\* print_f32: sign, integer part, dot and six digits of the fraction
RECURSIVE FracDigits(_, _)
FracDigits(f, i) ==
    IF i = 0 THEN <<>>
    ELSE << (48 + f \div 100000) % 256 >> \o FracDigits((f % 100000) * 10, i - 1)

print_f32(w, fpu) ==
    LET neg == F32Lt(w, Zero32)
        value == IF neg THEN F32Neg(w) ELSE w
        int_part == F32ToI32(value, fpu)
        frac_part == F32Sub(value, F32OfI32(int_part), fpu)
        frac_val == F32ToU32(F32Mul(frac_part, F32Million, fpu), fpu)
        d == ToNat(DivU(frac_val, FromNat(100000)))
        r == ToNat(ModU(frac_val, FromNat(100000)))
    IN  (IF neg THEN <<45>> ELSE <<>>) \o print_i32(int_part) \o <<46>>
        \o << (48 + d) % 256 >> \o FracDigits(r * 10, 5)

(***************************************************************************)
(* Sparse maps                                                             *)
(***************************************************************************)
EmptyMap == [i \in {} |-> 0]

Get(m, i, dflt) == IF i \in DOMAIN m THEN m[i] ELSE dflt

Put(m, i, v, dflt) ==
    IF v = dflt
    THEN [j \in (DOMAIN m) \ {i} |-> m[j]]
    ELSE [j \in (DOMAIN m) \cup {i} |-> IF j = i THEN v ELSE m[j]]

(***************************************************************************)
(* The data model: var_value_t, membuf_t, stack_frame_t, vm_state_t        *)
(***************************************************************************)
VoidVal == [type |-> V_VOID, val |-> Zero32]

MkVal(t, w) == [type |-> t, val |-> w]

ZeroBuf == [type |-> MB_VOID, buf |-> EmptyMap]

ZeroFrame ==
    [stack_vars |-> EmptyMap, locals |-> EmptyMap,
     ret_val |-> VoidVal, return_addr |-> 0]

\* stack_frames[f], g_vars[i], g_membuf[i], program[i]
Frame(v, f) == Get(v.stack_frames, f, ZeroFrame)
Global(v, i) == Get(v.g_vars, i, VoidVal)
Membuf(v, i) == Get(v.g_membuf, i, ZeroBuf)
ProgByte(v, i) == Get(v.program, i, 0)

SetFrame(v, f, fr) ==
    [v EXCEPT !.stack_frames = Put(v.stack_frames, f, fr, ZeroFrame)]
SetGlobal(v, i, x) == [v EXCEPT !.g_vars = Put(v.g_vars, i, x, VoidVal)]
SetMembuf(v, i, b) == [v EXCEPT !.g_membuf = Put(v.g_membuf, i, b, ZeroBuf)]

\* stack_frames[f].stack_vars[i] and stack_frames[f].locals[i]
FrameVar(v, f, i) == Get(Frame(v, f).stack_vars, i, VoidVal)
FrameLocal(v, f, i) == Get(Frame(v, f).locals, i, VoidVal)

SetFrameVar(v, f, i, x) ==
    SetFrame(v, f, [Frame(v, f) EXCEPT !.stack_vars = Put(@, i, x, VoidVal)])
SetFrameLocal(v, f, i, x) ==
    SetFrame(v, f, [Frame(v, f) EXCEPT !.locals = Put(@, i, x, VoidVal)])

\* buf.u8x256[i] of a membuf_t, and the buffer with bytes bs stored from at
BufByte(b, i) == Get(b.buf, i, 0)

PutBytes(m, at, bs) ==
    LET span == at .. (at + Len(bs) - 1)
        kept == (DOMAIN m) \ span
        set == {j \in span : bs[j - at + 1] # 0}
    IN  [j \in kept \cup set |-> IF j \in span THEN bs[j - at + 1] ELSE m[j]]

\* Element widths of the union's arrays, and element pos of a typed buffer
\* widened to a word (u8 and u16 elements zero-extend)
ElemBytes(type) == IF type = MB_U8 THEN 1 ELSE IF type = MB_U16 THEN 2 ELSE 4

BufElem(b, pos) ==
    LET at == pos * ElemBytes(b.type)
        Byte(i) == IF i < ElemBytes(b.type) THEN BufByte(b, at + i) ELSE 0
    IN  << Byte(0), Byte(1), Byte(2), Byte(3) >>

\* SetBufElem storing the whole word whatever the element width
M_SetBufElem_WholeWord(b, pos, w) ==
    [b EXCEPT !.buf = PutBytes(@, pos * ElemBytes(b.type), w)]

SetBufElem(b, pos, w) ==
    [b EXCEPT !.buf = PutBytes(@, pos * ElemBytes(b.type),
                               SubSeq(w, 1, ElemBytes(b.type)))]

\* get_buffer_capacity and the validate_* helpers on a uint32 index
get_buffer_capacity(type) ==
    CASE type = MB_U8 -> MEMBUF_U8_COUNT
      [] type = MB_U16 -> MEMBUF_U16_COUNT
      [] type = MB_I32 -> MEMBUF_I32_COUNT
      [] type = MB_U32 -> MEMBUF_U32_COUNT
      [] type = MB_FLOAT -> MEMBUF_F32_COUNT
      [] OTHER -> 0

validate_buffer_idx(w) == ~U32GeNat(w, G_MEMBUF_COUNT)

\* validate_buffer_pos accepting the position just past the last element
M_validate_buffer_pos_Inclusive(type, w) ==
    ~U32GeNat(w, get_buffer_capacity(type) + 1)

validate_buffer_pos(type, w) == ~U32GeNat(w, get_buffer_capacity(type))

(***************************************************************************)
(* vm_init / vm_reset: memset to zero, then every tag set to Void (= 0)    *)
(***************************************************************************)
vm_init ==
    [g_vars |-> EmptyMap, g_membuf |-> EmptyMap, stack_frames |-> EmptyMap,
     sp |-> 0, program |-> EmptyMap, program_len |-> 0, pc |-> 0,
     flags |-> 0, last_error |-> VM_OK]

\* vm_reset clearing everything but the frames
M_vm_reset_KeepsFrames == [vm_init EXCEPT !.stack_frames = vm.stack_frames]

\* vm_reset keeping the loaded program
M_vm_reset_KeepsProgram ==
    [vm_init EXCEPT !.program = vm.program, !.program_len = vm.program_len]

vm_reset == vm_init

(***************************************************************************)
(* vm_load_program.  The host's buffer is p.code followed by zero bytes    *)
(* up to p.len.                                                            *)
(***************************************************************************)
HostByte(p, i) == IF i < Len(p.code) THEN p.code[i + 1] ELSE 0

\* vm_load_program refusing a program that fills the instruction memory
M_vm_load_program_RejectsFull(v, p) ==
    IF p.len >= PROGRAM_MAX_SIZE
    THEN [status |-> VM_ERR_PROGRAM_TOO_LARGE,
          vm |-> [v EXCEPT !.last_error = VM_ERR_PROGRAM_TOO_LARGE]]
    ELSE LET NewByte(i) == IF i < p.len THEN HostByte(p, i) ELSE ProgByte(v, i)
             cand == (DOMAIN v.program) \cup
                     {i \in 0 .. (Len(p.code) - 1) : i < p.len}
         IN  [status |-> VM_OK,
              vm |-> [v EXCEPT
                        !.program = [i \in {j \in cand : NewByte(j) # 0}
                                       |-> NewByte(i)],
                        !.program_len = p.len,
                        !.pc = 0,
                        !.last_error = VM_OK]]

\* vm_load_program starting the new program on an empty stack with clear
\* flags
M_vm_load_program_ResetsStack(v, p) ==
    IF p.len > PROGRAM_MAX_SIZE
    THEN [status |-> VM_ERR_PROGRAM_TOO_LARGE,
          vm |-> [v EXCEPT !.last_error = VM_ERR_PROGRAM_TOO_LARGE]]
    ELSE LET NewByte(i) == IF i < p.len THEN HostByte(p, i) ELSE ProgByte(v, i)
             cand == (DOMAIN v.program) \cup
                     {i \in 0 .. (Len(p.code) - 1) : i < p.len}
         IN  [status |-> VM_OK,
              vm |-> [v EXCEPT
                        !.program = [i \in {j \in cand : NewByte(j) # 0}
                                       |-> NewByte(i)],
                        !.program_len = p.len,
                        !.pc = 0,
                        !.sp = 0,
                        !.flags = 0,
                        !.last_error = VM_OK]]

\* vm_load_program returning its status without recording it
M_vm_load_program_KeepsLastError(v, p) ==
    IF p.len > PROGRAM_MAX_SIZE
    THEN [status |-> VM_ERR_PROGRAM_TOO_LARGE, vm |-> v]
    ELSE [status |-> VM_OK,
          vm |-> [v EXCEPT
                    !.program = [i \in {j \in 0 .. (Len(p.code) - 1) :
                                          j < p.len /\ HostByte(p, j) # 0}
                                   |-> HostByte(p, i)],
                    !.program_len = p.len,
                    !.pc = 0]]

vm_load_program(v, p) ==
    IF p.len > PROGRAM_MAX_SIZE
    THEN [status |-> VM_ERR_PROGRAM_TOO_LARGE,
          vm |-> [v EXCEPT !.last_error = VM_ERR_PROGRAM_TOO_LARGE]]
    ELSE LET NewByte(i) == IF i < p.len THEN HostByte(p, i) ELSE ProgByte(v, i)
             cand == (DOMAIN v.program) \cup
                     {i \in 0 .. (Len(p.code) - 1) : i < p.len}
         IN  [status |-> VM_OK,
              vm |-> [v EXCEPT
                        !.program = [i \in {j \in cand : NewByte(j) # 0}
                                       |-> NewByte(i)],
                        !.program_len = p.len,
                        !.pc = 0,
                        !.last_error = VM_OK]]

(***************************************************************************)
(* Handler results: the status, the state after the handler, the next_pc   *)
(* local of vm_step and the bytes the handler printed.                     *)
(***************************************************************************)
Res(st, v, npc, o) == [status |-> st, vm |-> v, next_pc |-> npc, out |-> o]
Ok(v, npc) == Res(VM_OK, v, npc, <<>>)
Fail(v, st, npc) == Res(st, v, npc, <<>>)

\* get_stack_var / get_local_var / get_global_var return NULL on a bad index
ValidStackVar(idx) == idx < STACK_VAR_COUNT
ValidLocal(w) == ~U32GeNat(w, STACK_LOCALS_COUNT)
ValidGlobal(w) == ~U32GeNat(w, G_VARS_COUNT)

get_stack_var(v, idx) == FrameVar(v, v.sp, idx)
set_stack_var(v, idx, x) == SetFrameVar(v, v.sp, idx, x)

\* stack_var_ref_t overlaid on a payload word: frame_idx, then var_idx
RefFrame(w) == Lo16(w)
RefVar(w) == Hi16(w)

\* imm.u32 & 0xFF: the slot index an immediate word carries
Slot(w) == w[1]

(***************************************************************************)
(* Control flow handlers                                                   *)
(***************************************************************************)
\* OpJump accepting the address just past the program as a target
M_OpJump_TargetMayBeEnd(v, taken, imm1, next_pc) ==
    IF taken
    THEN IF U32GeNat(imm1, v.program_len + 1)
         THEN Fail(v, VM_ERR_INVALID_PC, next_pc)
         ELSE Ok(v, ToNat(imm1))
    ELSE Ok(v, next_pc)

\* OpJump validating the target before it looks at the condition
M_OpJump_ValidatesFirst(v, taken, imm1, next_pc) ==
    IF U32GeNat(imm1, v.program_len) THEN Fail(v, VM_ERR_INVALID_PC, next_pc)
    ELSE IF taken THEN Ok(v, ToNat(imm1))
    ELSE Ok(v, next_pc)

\* JMP (taken = TRUE) and the six conditional jumps
OpJump(v, taken, imm1, next_pc) ==
    IF taken
    THEN IF U32GeNat(imm1, v.program_len)
         THEN Fail(v, VM_ERR_INVALID_PC, next_pc)
         ELSE Ok(v, ToNat(imm1))
    ELSE Ok(v, next_pc)

FlagSet(v, f) == (v.flags \div f) % 2 = 1

\* OpCall without its depth check
M_OpCall_NoDepthCheck(v, imm1, next_pc) ==
    IF U32GeNat(imm1, v.program_len) THEN Fail(v, VM_ERR_INVALID_PC, next_pc)
    ELSE LET fr == Frame(v, v.sp + 1)
             v1 == SetFrame(v, v.sp + 1,
                      [fr EXCEPT !.return_addr = next_pc, !.locals = EmptyMap])
         IN  Ok([v1 EXCEPT !.sp = v.sp + 1], ToNat(imm1))

\* OpCall refusing one frame early
M_OpCall_OffByOne(v, imm1, next_pc) ==
    IF v.sp >= STACK_DEPTH - 2 THEN Fail(v, VM_ERR_STACK_OVERFLOW, next_pc)
    ELSE IF U32GeNat(imm1, v.program_len) THEN Fail(v, VM_ERR_INVALID_PC, next_pc)
    ELSE LET fr == Frame(v, v.sp + 1)
             v1 == SetFrame(v, v.sp + 1,
                      [fr EXCEPT !.return_addr = next_pc, !.locals = EmptyMap])
         IN  Ok([v1 EXCEPT !.sp = v.sp + 1], ToNat(imm1))

\* OpCall storing the address of a one-word CALL whatever the encoding
M_OpCall_FixedSize(v, imm1, next_pc) ==
    IF v.sp >= STACK_DEPTH - 1 THEN Fail(v, VM_ERR_STACK_OVERFLOW, next_pc)
    ELSE IF U32GeNat(imm1, v.program_len) THEN Fail(v, VM_ERR_INVALID_PC, next_pc)
    ELSE LET fr == Frame(v, v.sp + 1)
             v1 == SetFrame(v, v.sp + 1,
                      [fr EXCEPT !.return_addr = v.pc + 8, !.locals = EmptyMap])
         IN  Ok([v1 EXCEPT !.sp = v.sp + 1], ToNat(imm1))

\* OpCall resetting the whole new frame instead of its locals
M_OpCall_ClearsFrame(v, imm1, next_pc) ==
    IF v.sp >= STACK_DEPTH - 1 THEN Fail(v, VM_ERR_STACK_OVERFLOW, next_pc)
    ELSE IF U32GeNat(imm1, v.program_len) THEN Fail(v, VM_ERR_INVALID_PC, next_pc)
    ELSE LET v1 == SetFrame(v, v.sp + 1, [ZeroFrame EXCEPT !.return_addr = next_pc])
         IN  Ok([v1 EXCEPT !.sp = v.sp + 1], ToNat(imm1))

OpCall(v, imm1, next_pc) ==
    IF v.sp >= STACK_DEPTH - 1 THEN Fail(v, VM_ERR_STACK_OVERFLOW, next_pc)
    ELSE IF U32GeNat(imm1, v.program_len) THEN Fail(v, VM_ERR_INVALID_PC, next_pc)
    ELSE LET fr == Frame(v, v.sp + 1)
             v1 == SetFrame(v, v.sp + 1,
                      [fr EXCEPT !.return_addr = next_pc, !.locals = EmptyMap])
         IN  Ok([v1 EXCEPT !.sp = v.sp + 1], ToNat(imm1))

\* OpRet without its underflow check: the uint8_t sp wraps
M_OpRet_NoUnderflowCheck(v, next_pc) ==
    Ok([v EXCEPT !.sp = (v.sp - 1) % 256], Frame(v, v.sp).return_addr)

OpRet(v, next_pc) ==
    IF v.sp = 0 THEN Fail(v, VM_ERR_STACK_UNDERFLOW, next_pc)
    ELSE Ok([v EXCEPT !.sp = v.sp - 1], Frame(v, v.sp).return_addr)

(***************************************************************************)
(* Load and store handlers                                                 *)
(***************************************************************************)
OpLoadG(v, operand, imm1, next_pc) ==
    IF ~ValidStackVar(operand) \/ ~ValidGlobal(imm1)
    THEN Fail(v, VM_ERR_INVALID_GLOBAL_IDX, next_pc)
    ELSE Ok(set_stack_var(v, operand, Global(v, ToNat(imm1))), next_pc)

OpLoadL(v, operand, imm1, next_pc) ==
    IF ~ValidStackVar(operand) \/ ~ValidLocal(imm1)
    THEN Fail(v, VM_ERR_INVALID_LOCAL_IDX, next_pc)
    ELSE Ok(set_stack_var(v, operand, FrameLocal(v, v.sp, ToNat(imm1))), next_pc)

OpLoadS(v, operand, imm1, next_pc) ==
    IF ~ValidStackVar(operand) THEN Fail(v, VM_ERR_INVALID_STACK_VAR_IDX, next_pc)
    ELSE IF RefFrame(imm1) >= STACK_DEPTH \/ RefVar(imm1) >= STACK_VAR_COUNT
    THEN Fail(v, VM_ERR_INVALID_STACK_VAR_IDX, next_pc)
    ELSE Ok(set_stack_var(v, operand, FrameVar(v, RefFrame(imm1), RefVar(imm1))),
            next_pc)

\* LOAD_I_I32, LOAD_I_U32, LOAD_I_F32: the tag, and the payload word as is
OpLoadI(v, operand, tag, imm1, next_pc) ==
    IF ~ValidStackVar(operand) THEN Fail(v, VM_ERR_INVALID_STACK_VAR_IDX, next_pc)
    ELSE Ok(set_stack_var(v, operand, MkVal(tag, imm1)), next_pc)

\* OpLoadRet reading the ret_val of the active frame whatever imm1 names
M_OpLoadRet_ActiveFrame(v, operand, imm1, next_pc) ==
    IF ~ValidStackVar(operand) THEN Fail(v, VM_ERR_INVALID_STACK_VAR_IDX, next_pc)
    ELSE IF U32GeNat(imm1, STACK_DEPTH) THEN Fail(v, VM_ERR_INVALID_STACK_VAR_IDX, next_pc)
    ELSE Ok(set_stack_var(v, operand, Frame(v, v.sp).ret_val), next_pc)

OpLoadRet(v, operand, imm1, next_pc) ==
    IF ~ValidStackVar(operand) THEN Fail(v, VM_ERR_INVALID_STACK_VAR_IDX, next_pc)
    ELSE IF U32GeNat(imm1, STACK_DEPTH) THEN Fail(v, VM_ERR_INVALID_STACK_VAR_IDX, next_pc)
    ELSE Ok(set_stack_var(v, operand, Frame(v, ToNat(imm1)).ret_val), next_pc)

OpStoreG(v, operand, imm1, next_pc) ==
    IF ~ValidStackVar(operand) \/ ~ValidGlobal(imm1)
    THEN Fail(v, VM_ERR_INVALID_GLOBAL_IDX, next_pc)
    ELSE Ok(SetGlobal(v, ToNat(imm1), get_stack_var(v, operand)), next_pc)

OpStoreL(v, operand, imm1, next_pc) ==
    IF ~ValidStackVar(operand) \/ ~ValidLocal(imm1)
    THEN Fail(v, VM_ERR_INVALID_LOCAL_IDX, next_pc)
    ELSE Ok(SetFrameLocal(v, v.sp, ToNat(imm1), get_stack_var(v, operand)), next_pc)

OpStoreS(v, operand, imm1, next_pc) ==
    IF ~ValidStackVar(operand) THEN Fail(v, VM_ERR_INVALID_STACK_VAR_IDX, next_pc)
    ELSE IF RefFrame(imm1) >= STACK_DEPTH \/ RefVar(imm1) >= STACK_VAR_COUNT
    THEN Fail(v, VM_ERR_INVALID_STACK_VAR_IDX, next_pc)
    ELSE Ok(SetFrameVar(v, RefFrame(imm1), RefVar(imm1), get_stack_var(v, operand)),
            next_pc)

\* OpStoreRet storing over the frame's return_addr as well
M_OpStoreRet_ClobbersReturnAddr(v, operand, imm1, next_pc) ==
    IF ~ValidStackVar(operand) THEN Fail(v, VM_ERR_INVALID_STACK_VAR_IDX, next_pc)
    ELSE IF U32GeNat(imm1, STACK_DEPTH) THEN Fail(v, VM_ERR_INVALID_STACK_VAR_IDX, next_pc)
    ELSE Ok(SetFrame(v, ToNat(imm1),
               [Frame(v, ToNat(imm1)) EXCEPT !.ret_val = get_stack_var(v, operand),
                                             !.return_addr = 0]),
            next_pc)

OpStoreRet(v, operand, imm1, next_pc) ==
    IF ~ValidStackVar(operand) THEN Fail(v, VM_ERR_INVALID_STACK_VAR_IDX, next_pc)
    ELSE IF U32GeNat(imm1, STACK_DEPTH) THEN Fail(v, VM_ERR_INVALID_STACK_VAR_IDX, next_pc)
    ELSE Ok(SetFrame(v, ToNat(imm1),
               [Frame(v, ToNat(imm1)) EXCEPT !.ret_val = get_stack_var(v, operand)]),
            next_pc)


(***************************************************************************)
(* Arithmetic, bitwise, comparison, conversion and print handlers.  They   *)
(* share one shape each: resolve the slots, check the source tags, run     *)
(* the opcode's own check, write the destination.                          *)
(***************************************************************************)
\* The operand checks.  DIV_U32, MOD_U32, and DIV_F32's divisor == 0.0f
ZeroCheckU(a, b) == IF b = Zero32 THEN VM_ERR_DIV_BY_ZERO ELSE VM_OK
\* ZeroCheckF comparing bit patterns: only +0.0 counts as zero
M_ZeroCheckF_PositiveZeroOnly(a, b) ==
    IF b = Zero32 THEN VM_ERR_DIV_BY_ZERO ELSE VM_OK
ZeroCheckF(a, b) == IF F32IsZero(b) THEN VM_ERR_DIV_BY_ZERO ELSE VM_OK
\* DIV_I32, MOD_I32: the divide of INT32_MIN by -1 is undefined; it kills
\* the process on a machine whose divide instruction traps
ZeroCheckS(a, b, trap) ==
    IF b = Zero32 THEN VM_ERR_DIV_BY_ZERO
    ELSE IF trap /\ a = INT32_MIN /\ b = MinusOne THEN SIGFPE
    ELSE VM_OK
\* SHL_U32, SHR_U32
ShiftCheck(a, b) == IF U32GeNat(b, 32) THEN VM_ERR_BOUNDS ELSE VM_OK

\* The handlers with two sources: the tag every operand must carry, the
\* opcode's own check of the source values, and the value stored
BinaryOpcodes ==
    {OP_ADD_I32, OP_SUB_I32, OP_MUL_I32, OP_DIV_I32, OP_MOD_I32,
     OP_ADD_U32, OP_SUB_U32, OP_MUL_U32, OP_DIV_U32, OP_MOD_U32,
     OP_ADD_F32, OP_SUB_F32, OP_MUL_F32, OP_DIV_F32,
     OP_AND_U32, OP_OR_U32, OP_XOR_U32, OP_SHL_U32, OP_SHR_U32}

BinaryTag(opcode) ==
    IF opcode \in OP_ADD_I32 .. OP_MOD_I32 THEN V_I32
    ELSE IF opcode \in OP_ADD_F32 .. OP_DIV_F32 THEN V_FLOAT
    ELSE V_U32

BinaryCheck(opcode, a, b, rd) ==
    CASE opcode \in {OP_DIV_I32, OP_MOD_I32} -> ZeroCheckS(a, b, rd.trap)
      [] opcode \in {OP_DIV_U32, OP_MOD_U32} -> ZeroCheckU(a, b)
      [] opcode = OP_DIV_F32 -> ZeroCheckF(a, b)
      [] opcode \in {OP_SHL_U32, OP_SHR_U32} -> ShiftCheck(a, b)
      [] OTHER -> VM_OK

BinaryValue(opcode, a, b, rd) ==
    CASE opcode \in {OP_ADD_I32, OP_ADD_U32} -> AddW(a, b)
      [] opcode \in {OP_SUB_I32, OP_SUB_U32} -> SubW(a, b)
      [] opcode \in {OP_MUL_I32, OP_MUL_U32} -> MulW(a, b)
      [] opcode = OP_DIV_I32 -> DivS(a, b)
      [] opcode = OP_MOD_I32 -> ModS(a, b)
      [] opcode = OP_DIV_U32 -> DivU(a, b)
      [] opcode = OP_MOD_U32 -> ModU(a, b)
      [] opcode = OP_ADD_F32 -> F32Add(a, b, rd.fpu)
      [] opcode = OP_SUB_F32 -> F32Sub(a, b, rd.fpu)
      [] opcode = OP_MUL_F32 -> F32Mul(a, b, rd.fpu)
      [] opcode = OP_DIV_F32 -> F32Div(a, b, rd.fpu)
      [] opcode = OP_AND_U32 -> AndW(a, b)
      [] opcode = OP_OR_U32 -> OrW(a, b)
      [] opcode = OP_XOR_U32 -> XorW(a, b)
      [] opcode = OP_SHL_U32 -> ShlW(a, ToNat(b))
      [] opcode = OP_SHR_U32 -> ShrW(a, ToNat(b))

\* OpBinary checking the tag of its first source only
M_OpBinary_ChecksFirstSource(v, opcode, operand, imm1, imm2, rd, next_pc) ==
    IF ~ValidStackVar(operand) \/ ~ValidStackVar(Slot(imm1))
       \/ ~ValidStackVar(Slot(imm2))
    THEN Fail(v, VM_ERR_INVALID_STACK_VAR_IDX, next_pc)
    ELSE LET src1 == get_stack_var(v, Slot(imm1))
             src2 == get_stack_var(v, Slot(imm2))
         IN  IF src1.type # BinaryTag(opcode)
             THEN Fail(v, VM_ERR_TYPE_MISMATCH, next_pc)
             ELSE IF BinaryCheck(opcode, src1.val, src2.val, rd) # VM_OK
             THEN Fail(v, BinaryCheck(opcode, src1.val, src2.val, rd), next_pc)
             ELSE Ok(set_stack_var(v, operand,
                        MkVal(BinaryTag(opcode),
                              BinaryValue(opcode, src1.val, src2.val, rd))),
                     next_pc)

\* OpBinary tagging the destination before the opcode's own check
M_OpBinary_TagsBeforeCheck(v, opcode, operand, imm1, imm2, rd, next_pc) ==
    IF ~ValidStackVar(operand) \/ ~ValidStackVar(Slot(imm1))
       \/ ~ValidStackVar(Slot(imm2))
    THEN Fail(v, VM_ERR_INVALID_STACK_VAR_IDX, next_pc)
    ELSE LET src1 == get_stack_var(v, Slot(imm1))
             src2 == get_stack_var(v, Slot(imm2))
         IN  IF src1.type # BinaryTag(opcode) \/ src2.type # BinaryTag(opcode)
             THEN Fail(v, VM_ERR_TYPE_MISMATCH, next_pc)
             ELSE IF BinaryCheck(opcode, src1.val, src2.val, rd) # VM_OK
             THEN Fail(set_stack_var(v, operand,
                          MkVal(BinaryTag(opcode), get_stack_var(v, operand).val)),
                       BinaryCheck(opcode, src1.val, src2.val, rd), next_pc)
             ELSE Ok(set_stack_var(v, operand,
                        MkVal(BinaryTag(opcode),
                              BinaryValue(opcode, src1.val, src2.val, rd))),
                     next_pc)

\* dest = src1 op src2
OpBinary(v, opcode, operand, imm1, imm2, rd, next_pc) ==
    IF ~ValidStackVar(operand) \/ ~ValidStackVar(Slot(imm1))
       \/ ~ValidStackVar(Slot(imm2))
    THEN Fail(v, VM_ERR_INVALID_STACK_VAR_IDX, next_pc)
    ELSE LET src1 == get_stack_var(v, Slot(imm1))
             src2 == get_stack_var(v, Slot(imm2))
         IN  IF src1.type # BinaryTag(opcode) \/ src2.type # BinaryTag(opcode)
             THEN Fail(v, VM_ERR_TYPE_MISMATCH, next_pc)
             ELSE IF BinaryCheck(opcode, src1.val, src2.val, rd) # VM_OK
             THEN Fail(v, BinaryCheck(opcode, src1.val, src2.val, rd), next_pc)
             ELSE Ok(set_stack_var(v, operand,
                        MkVal(BinaryTag(opcode),
                              BinaryValue(opcode, src1.val, src2.val, rd))),
                     next_pc)

\* The handlers with one source: the tag the source must carry, the tag
\* the destination gets, and the value stored
UnaryOpcodes ==
    {OP_NEG_I32, OP_NEG_F32, OP_ABS_F32, OP_SQRT_F32, OP_NOT_U32}
    \cup (OP_I32_TO_U32 .. OP_F32_TO_U32)

UnaryFrom(opcode) ==
    IF opcode \in {OP_NEG_I32, OP_I32_TO_U32, OP_I32_TO_F32} THEN V_I32
    ELSE IF opcode \in {OP_NOT_U32, OP_U32_TO_I32, OP_U32_TO_F32} THEN V_U32
    ELSE V_FLOAT

UnaryTo(opcode) ==
    IF opcode \in {OP_NEG_I32, OP_U32_TO_I32, OP_F32_TO_I32} THEN V_I32
    ELSE IF opcode \in {OP_NOT_U32, OP_I32_TO_U32, OP_F32_TO_U32} THEN V_U32
    ELSE V_FLOAT

UnaryValue(opcode, a, rd) ==
    CASE opcode = OP_NEG_I32 -> NegW(a)
      [] opcode = OP_NEG_F32 -> F32Neg(a)
      [] opcode = OP_ABS_F32 -> F32Abs(a)
      [] opcode = OP_SQRT_F32 -> F32Sqrt(a, rd.fpu)
      [] opcode = OP_NOT_U32 -> NotW(a)
      [] opcode \in {OP_I32_TO_U32, OP_U32_TO_I32} -> a
      [] opcode = OP_I32_TO_F32 -> F32OfI32(a)
      [] opcode = OP_U32_TO_F32 -> F32OfU32(a)
      [] opcode = OP_F32_TO_I32 -> F32ToI32(a, rd.fpu)
      [] opcode = OP_F32_TO_U32 -> F32ToU32(a, rd.fpu)

\* dest = op src
OpUnary(v, opcode, operand, imm1, rd, next_pc) ==
    IF ~ValidStackVar(operand) \/ ~ValidStackVar(Slot(imm1))
    THEN Fail(v, VM_ERR_INVALID_STACK_VAR_IDX, next_pc)
    ELSE LET src == get_stack_var(v, Slot(imm1))
         IN  IF src.type # UnaryFrom(opcode)
             THEN Fail(v, VM_ERR_TYPE_MISMATCH, next_pc)
             ELSE Ok(set_stack_var(v, operand,
                        MkVal(UnaryTo(opcode), UnaryValue(opcode, src.val, rd))),
                     next_pc)

\* CMP_I32, CMP_U32, CMP_F32: the tag, and the tests behind the flags.
\* CMP_F32 takes fabsf(a - b) < 1e-6f for equality.
CmpTag(opcode) ==
    IF opcode = OP_CMP_I32 THEN V_I32
    ELSE IF opcode = OP_CMP_U32 THEN V_U32 ELSE V_FLOAT

F32Near(a, b, fpu) == F32Lt(F32Abs(F32Sub(a, b, fpu)), F32Epsilon)

CmpEq(opcode, a, b, rd) ==
    IF opcode = OP_CMP_F32 THEN F32Near(a, b, rd.fpu) ELSE a = b

\* CmpLt ordering int32_t values as bit patterns
M_CmpLt_AlwaysUnsigned(opcode, a, b) ==
    IF opcode = OP_CMP_F32 THEN F32Lt(a, b) ELSE LtU(a, b)

CmpLt(opcode, a, b) ==
    IF opcode = OP_CMP_I32 THEN LtS(a, b)
    ELSE IF opcode = OP_CMP_U32 THEN LtU(a, b) ELSE F32Lt(a, b)

\* OpCmp without its `vm->flags = 0`: the new bit joins the old ones
M_OpCmp_KeepsFlags(v, opcode, imm1, imm2, rd, next_pc) ==
    IF ~ValidStackVar(Slot(imm1)) \/ ~ValidStackVar(Slot(imm2))
    THEN Fail(v, VM_ERR_INVALID_STACK_VAR_IDX, next_pc)
    ELSE LET src1 == get_stack_var(v, Slot(imm1))
             src2 == get_stack_var(v, Slot(imm2))
             Merged(f, on) == IF on \/ FlagSet(v, f) THEN f ELSE 0
         IN  IF src1.type # CmpTag(opcode) \/ src2.type # CmpTag(opcode)
             THEN Fail(v, VM_ERR_TYPE_MISMATCH, next_pc)
             ELSE Ok([v EXCEPT !.flags =
                        Merged(FLAG_ZERO, CmpEq(opcode, src1.val, src2.val, rd))
                        + Merged(FLAG_LESS, CmpLt(opcode, src1.val, src2.val))
                        + Merged(FLAG_GREATER, CmpLt(opcode, src2.val, src1.val))],
                     next_pc)

\* flags = 0, then one bit per test that holds
OpCmp(v, opcode, imm1, imm2, rd, next_pc) ==
    IF ~ValidStackVar(Slot(imm1)) \/ ~ValidStackVar(Slot(imm2))
    THEN Fail(v, VM_ERR_INVALID_STACK_VAR_IDX, next_pc)
    ELSE LET src1 == get_stack_var(v, Slot(imm1))
             src2 == get_stack_var(v, Slot(imm2))
         IN  IF src1.type # CmpTag(opcode) \/ src2.type # CmpTag(opcode)
             THEN Fail(v, VM_ERR_TYPE_MISMATCH, next_pc)
             ELSE Ok([v EXCEPT !.flags =
                        (IF CmpEq(opcode, src1.val, src2.val, rd)
                         THEN FLAG_ZERO ELSE 0)
                        + (IF CmpLt(opcode, src1.val, src2.val)
                           THEN FLAG_LESS ELSE 0)
                        + (IF CmpLt(opcode, src2.val, src1.val)
                           THEN FLAG_GREATER ELSE 0)],
                     next_pc)

\* PRINT_I32, PRINT_U32, PRINT_F32
PrintTag(opcode) ==
    IF opcode = OP_PRINT_I32 THEN V_I32
    ELSE IF opcode = OP_PRINT_U32 THEN V_U32 ELSE V_FLOAT

PrintText(opcode, a, rd) ==
    IF opcode = OP_PRINT_I32 THEN print_i32(a)
    ELSE IF opcode = OP_PRINT_U32 THEN print_u32(a)
    ELSE print_f32(a, rd.fpu)

OpPrint(v, opcode, imm1, rd, next_pc) ==
    IF ~ValidStackVar(Slot(imm1))
    THEN Fail(v, VM_ERR_INVALID_STACK_VAR_IDX, next_pc)
    ELSE LET src == get_stack_var(v, Slot(imm1))
         IN  IF src.type # PrintTag(opcode)
             THEN Fail(v, VM_ERR_TYPE_MISMATCH, next_pc)
             ELSE Res(VM_OK, v, next_pc, PrintText(opcode, src.val, rd))

(***************************************************************************)
(* Buffer handlers                                                         *)
(***************************************************************************)
\* The tag BUF_READ gives the element of a buffer of the given type
ElemTag(type) ==
    IF type = MB_I32 THEN V_I32 ELSE IF type = MB_FLOAT THEN V_FLOAT ELSE V_U32

OpBufRead(v, operand, imm1, imm2, next_pc) ==
    IF ~ValidStackVar(operand) THEN Fail(v, VM_ERR_INVALID_STACK_VAR_IDX, next_pc)
    ELSE IF ~validate_buffer_idx(imm1) THEN Fail(v, VM_ERR_INVALID_BUFFER_IDX, next_pc)
    ELSE LET buf == Membuf(v, ToNat(imm1))
         IN  IF buf.type = MB_VOID THEN Fail(v, VM_ERR_TYPE_MISMATCH, next_pc)
             ELSE IF ~validate_buffer_pos(buf.type, imm2)
             THEN Fail(v, VM_ERR_INVALID_BUFFER_POS, next_pc)
             ELSE Ok(set_stack_var(v, operand,
                        MkVal(ElemTag(buf.type), BufElem(buf, ToNat(imm2)))),
                     next_pc)

\* The source tags an element of a buffer of the given type accepts
Accepts(type, tag) ==
    CASE type \in {MB_U8, MB_U16} -> tag \in {V_U32, V_I32}
      [] type = MB_I32 -> tag = V_I32
      [] type = MB_U32 -> tag = V_U32
      [] type = MB_FLOAT -> tag = V_FLOAT
      [] OTHER -> FALSE

OpBufWrite(v, operand, imm1, imm2, next_pc) ==
    IF ~ValidStackVar(operand) THEN Fail(v, VM_ERR_INVALID_STACK_VAR_IDX, next_pc)
    ELSE IF ~validate_buffer_idx(imm1) THEN Fail(v, VM_ERR_INVALID_BUFFER_IDX, next_pc)
    ELSE LET buf == Membuf(v, ToNat(imm1))
             src == get_stack_var(v, operand)
         IN  IF buf.type = MB_VOID THEN Fail(v, VM_ERR_TYPE_MISMATCH, next_pc)
             ELSE IF ~validate_buffer_pos(buf.type, imm2)
             THEN Fail(v, VM_ERR_INVALID_BUFFER_POS, next_pc)
             ELSE IF ~Accepts(buf.type, src.type)
             THEN Fail(v, VM_ERR_TYPE_MISMATCH, next_pc)
             ELSE Ok(SetMembuf(v, ToNat(imm1),
                               SetBufElem(buf, ToNat(imm2), src.val)), next_pc)

OpBufLen(v, operand, imm1, next_pc) ==
    IF ~ValidStackVar(operand) THEN Fail(v, VM_ERR_INVALID_STACK_VAR_IDX, next_pc)
    ELSE IF ~validate_buffer_idx(imm1) THEN Fail(v, VM_ERR_INVALID_BUFFER_IDX, next_pc)
    ELSE Ok(set_stack_var(v, operand,
               MkVal(V_U32, FromNat(get_buffer_capacity(Membuf(v, ToNat(imm1)).type)))),
            next_pc)

\* OpBufClear clearing the whole membuf_t, the tag included
M_OpBufClear_ResetsTag(v, imm1, next_pc) ==
    IF ~validate_buffer_idx(imm1) THEN Fail(v, VM_ERR_INVALID_BUFFER_IDX, next_pc)
    ELSE Ok(SetMembuf(v, ToNat(imm1), ZeroBuf), next_pc)

\* memset of the union; the tag stays
OpBufClear(v, imm1, next_pc) ==
    IF ~validate_buffer_idx(imm1) THEN Fail(v, VM_ERR_INVALID_BUFFER_IDX, next_pc)
    ELSE Ok(SetMembuf(v, ToNat(imm1),
                      [Membuf(v, ToNat(imm1)) EXCEPT !.buf = EmptyMap]), next_pc)

(***************************************************************************)
(* String handlers                                                         *)
(***************************************************************************)
\* The string length loop: the index of the first NUL, or MEMBUF_U8_COUNT
StrLen(b) ==
    CHOOSE n \in 0 .. MEMBUF_U8_COUNT :
        /\ n = MEMBUF_U8_COUNT \/ BufByte(b, n) = 0
        /\ \A k \in 0 .. (n - 1) : BufByte(b, k) # 0

\* The two copy loops of STR_CAT into destination bytes d, given the
\* lengths len1 and len2 found beforehand.  The first loop stores
\* s1[0 .. m1-1]; the second stores m2 bytes from position m1 on, reading
\* byte k of the second source.  When the second source is the destination
\* itself, a byte read at k >= m1 is one the loop stored m1 steps earlier.
CatLoops(d, s1, s2, same2, len1, len2) ==
    LET m1 == IF len1 < MEMBUF_U8_COUNT - 1 THEN len1 ELSE MEMBUF_U8_COUNT - 1
        room == MEMBUF_U8_COUNT - 1 - m1
        m2 == IF len2 < room THEN len2 ELSE room
        After1(p) == IF p < m1 THEN Get(s1, p, 0) ELSE Get(d, p, 0)
        Read2(k) == IF same2 THEN After1(IF m1 = 0 THEN k ELSE k % m1)
                    ELSE Get(s2, k, 0)
        NewByte(p) == IF p < m1 THEN Get(s1, p, 0)
                      ELSE IF p < m1 + m2 THEN Read2(p - m1)
                      ELSE IF p = m1 + m2 THEN 0
                      ELSE Get(d, p, 0)
        cand == (DOMAIN d) \cup (0 .. (m1 + m2))
    IN  [p \in {q \in cand : NewByte(q) # 0} |-> NewByte(p)]

OpStrCat(v, operand, imm1, imm2, next_pc) ==
    IF ~validate_buffer_idx(imm1) \/ ~validate_buffer_idx(imm2)
    THEN Fail(v, VM_ERR_INVALID_BUFFER_IDX, next_pc)
    ELSE LET src1 == Membuf(v, ToNat(imm1))
             src2 == Membuf(v, ToNat(imm2))
         IN  IF src1.type # MB_U8 \/ src2.type # MB_U8
             THEN Fail(v, VM_ERR_TYPE_MISMATCH, next_pc)
             ELSE LET dest == Membuf(v, operand)
                  IN  Ok(SetMembuf(v, operand,
                            [type |-> MB_U8,
                             buf |-> CatLoops(dest.buf, src1.buf, src2.buf,
                                              operand = ToNat(imm2),
                                              StrLen(src1), StrLen(src2))]),
                         next_pc)

\* OpStrCopy copying the bytes before the NUL and not the NUL
M_OpStrCopy_NoTerminator(v, operand, imm1, next_pc) ==
    IF ~validate_buffer_idx(imm1) THEN Fail(v, VM_ERR_INVALID_BUFFER_IDX, next_pc)
    ELSE LET src == Membuf(v, ToNat(imm1))
             dest == Membuf(v, operand)
             n == StrLen(src)
             NewByte(i) == IF i >= n THEN BufByte(dest, i) ELSE BufByte(src, i)
             cand == (DOMAIN dest.buf) \cup (DOMAIN src.buf)
         IN  IF src.type # MB_U8 THEN Fail(v, VM_ERR_TYPE_MISMATCH, next_pc)
             ELSE Ok(SetMembuf(v, operand,
                        [type |-> MB_U8,
                         buf |-> [i \in {j \in cand : NewByte(j) # 0} |-> NewByte(i)]]),
                     next_pc)

\* dest[i] = src[i] up to and including the first NUL; a source without one
\* is cut at its last byte
OpStrCopy(v, operand, imm1, next_pc) ==
    IF ~validate_buffer_idx(imm1) THEN Fail(v, VM_ERR_INVALID_BUFFER_IDX, next_pc)
    ELSE LET src == Membuf(v, ToNat(imm1))
             dest == Membuf(v, operand)
             n == StrLen(src)
             NewByte(i) ==
                 IF i > n THEN BufByte(dest, i)
                 ELSE IF n = MEMBUF_U8_COUNT /\ i = MEMBUF_U8_COUNT - 1 THEN 0
                 ELSE BufByte(src, i)
             cand == (DOMAIN dest.buf) \cup (DOMAIN src.buf)
         IN  IF src.type # MB_U8 THEN Fail(v, VM_ERR_TYPE_MISMATCH, next_pc)
             ELSE Ok(SetMembuf(v, operand,
                        [type |-> MB_U8,
                         buf |-> [i \in {j \in cand : NewByte(j) # 0} |-> NewByte(i)]]),
                     next_pc)

OpStrLen(v, operand, imm1, next_pc) ==
    IF ~ValidStackVar(operand) THEN Fail(v, VM_ERR_INVALID_STACK_VAR_IDX, next_pc)
    ELSE IF ~validate_buffer_idx(imm1) THEN Fail(v, VM_ERR_INVALID_BUFFER_IDX, next_pc)
    ELSE IF Membuf(v, ToNat(imm1)).type # MB_U8
    THEN Fail(v, VM_ERR_TYPE_MISMATCH, next_pc)
    ELSE Ok(set_stack_var(v, operand,
                          MkVal(V_U32, FromNat(StrLen(Membuf(v, ToNat(imm1)))))),
            next_pc)

\* StrCmp comparing all 256 bytes, not stopping at the NUL
M_StrCmp_PastTerminator(b1, b2) ==
    LET Stop(i) == BufByte(b1, i) # BufByte(b2, i)
        at == CHOOSE i \in 0 .. MEMBUF_U8_COUNT :
                  /\ i = MEMBUF_U8_COUNT \/ Stop(i)
                  /\ \A k \in 0 .. (i - 1) : ~Stop(k)
    IN  IF at = MEMBUF_U8_COUNT THEN 0
        ELSE IF BufByte(b1, at) < BufByte(b2, at) THEN 0 - 1
        ELSE 1

\* cmp_result of STR_CMP's loop: the bytes at the first index where the
\* strings differ or both end decide; -1, 0 or 1
StrCmp(b1, b2) ==
    LET Stop(i) == BufByte(b1, i) # BufByte(b2, i) \/ BufByte(b1, i) = 0
        at == CHOOSE i \in 0 .. MEMBUF_U8_COUNT :
                  /\ i = MEMBUF_U8_COUNT \/ Stop(i)
                  /\ \A k \in 0 .. (i - 1) : ~Stop(k)
    IN  IF at = MEMBUF_U8_COUNT THEN 0
        ELSE IF BufByte(b1, at) < BufByte(b2, at) THEN 0 - 1
        ELSE IF BufByte(b1, at) > BufByte(b2, at) THEN 1
        ELSE 0

\* OpStrCmp clearing the flags before it checks the buffer types
M_OpStrCmp_ClearsFirst(v, imm1, imm2, next_pc) ==
    IF ~validate_buffer_idx(imm1) \/ ~validate_buffer_idx(imm2)
    THEN Fail(v, VM_ERR_INVALID_BUFFER_IDX, next_pc)
    ELSE LET buf1 == Membuf(v, ToNat(imm1))
             buf2 == Membuf(v, ToNat(imm2))
             cmp_result == StrCmp(buf1, buf2)
         IN  IF buf1.type # MB_U8 \/ buf2.type # MB_U8
             THEN Fail([v EXCEPT !.flags = 0], VM_ERR_TYPE_MISMATCH, next_pc)
             ELSE Ok([v EXCEPT !.flags =
                        IF cmp_result = 0 THEN FLAG_ZERO
                        ELSE IF cmp_result < 0 THEN FLAG_LESS ELSE FLAG_GREATER],
                     next_pc)

OpStrCmp(v, imm1, imm2, next_pc) ==
    IF ~validate_buffer_idx(imm1) \/ ~validate_buffer_idx(imm2)
    THEN Fail(v, VM_ERR_INVALID_BUFFER_IDX, next_pc)
    ELSE LET buf1 == Membuf(v, ToNat(imm1))
             buf2 == Membuf(v, ToNat(imm2))
             cmp_result == StrCmp(buf1, buf2)
         IN  IF buf1.type # MB_U8 \/ buf2.type # MB_U8
             THEN Fail(v, VM_ERR_TYPE_MISMATCH, next_pc)
             ELSE Ok([v EXCEPT !.flags =
                        IF cmp_result = 0 THEN FLAG_ZERO
                        ELSE IF cmp_result < 0 THEN FLAG_LESS ELSE FLAG_GREATER],
                     next_pc)

OpStrChr(v, operand, imm1, imm2, next_pc) ==
    IF ~ValidStackVar(operand) THEN Fail(v, VM_ERR_INVALID_STACK_VAR_IDX, next_pc)
    ELSE IF ~validate_buffer_idx(imm1) THEN Fail(v, VM_ERR_INVALID_BUFFER_IDX, next_pc)
    ELSE IF Membuf(v, ToNat(imm1)).type # MB_U8
    THEN Fail(v, VM_ERR_TYPE_MISMATCH, next_pc)
    ELSE IF U32GeNat(imm2, MEMBUF_U8_COUNT)
    THEN Fail(v, VM_ERR_INVALID_BUFFER_POS, next_pc)
    ELSE Ok(set_stack_var(v, operand,
               MkVal(V_U32, FromNat(BufByte(Membuf(v, ToNat(imm1)), ToNat(imm2))))),
            next_pc)

OpStrSetChr(v, imm1, imm2, imm3, next_pc) ==
    IF ~validate_buffer_idx(imm1) THEN Fail(v, VM_ERR_INVALID_BUFFER_IDX, next_pc)
    ELSE IF Membuf(v, ToNat(imm1)).type # MB_U8
    THEN Fail(v, VM_ERR_TYPE_MISMATCH, next_pc)
    ELSE IF U32GeNat(imm2, MEMBUF_U8_COUNT)
    THEN Fail(v, VM_ERR_INVALID_BUFFER_POS, next_pc)
    ELSE Ok(SetMembuf(v, ToNat(imm1),
               [Membuf(v, ToNat(imm1)) EXCEPT
                  !.buf = Put(@, ToNat(imm2), imm3[1], 0)]),
            next_pc)

(***************************************************************************)
(* I/O handlers.  What stdin and the platform contribute to one vm_step    *)
(* call is the record rd:                                                  *)
(*   rd.scan  what scanf delivers: whether it converted a value, and the   *)
(*            value;                                                       *)
(*   rd.line  the bytes getchar delivers before the next '\n' or EOF;      *)
(*   rd.trap  whether this machine's integer divide traps;                 *)
(*   rd.fpu   what this platform's floating point unit does where IEEE 754  *)
(*            and C leave it the choice.                                   *)
(***************************************************************************)
\* The bytes of a string up to its first NUL
PrintedStr(b) == [i \in 1 .. StrLen(b) |-> BufByte(b, i - 1)]

OpPrintStr(v, imm1, next_pc) ==
    IF ~validate_buffer_idx(imm1) THEN Fail(v, VM_ERR_INVALID_BUFFER_IDX, next_pc)
    ELSE IF Membuf(v, ToNat(imm1)).type # MB_U8
    THEN Fail(v, VM_ERR_TYPE_MISMATCH, next_pc)
    ELSE Res(VM_OK, v, next_pc, PrintedStr(Membuf(v, ToNat(imm1))))

\* READ_I32, READ_U32, READ_F32: the value scanned, or 0 when scanf failed
OpRead(v, operand, tag, rd, next_pc) ==
    IF ~ValidStackVar(operand) THEN Fail(v, VM_ERR_INVALID_STACK_VAR_IDX, next_pc)
    ELSE Ok(set_stack_var(v, operand,
               MkVal(tag, IF rd.scan.ok THEN rd.scan.w ELSE Zero32)), next_pc)

\* OpReadStr filling all MEMBUF_U8_COUNT bytes before it terminates
M_OpReadStr_FullBuffer(v, imm1, rd, next_pc) ==
    IF ~validate_buffer_idx(imm1) THEN Fail(v, VM_ERR_INVALID_BUFFER_IDX, next_pc)
    ELSE LET n == IF Len(rd.line) < MEMBUF_U8_COUNT
                  THEN Len(rd.line) ELSE MEMBUF_U8_COUNT
             buf == Membuf(v, ToNat(imm1))
         IN  Ok(SetMembuf(v, ToNat(imm1),
                   [type |-> MB_U8,
                    buf |-> Put(PutBytes(buf.buf, 0, SubSeq(rd.line, 1, n)), n, 0, 0)]),
                next_pc)

\* READ_STR: at most MEMBUF_U8_COUNT - 1 bytes of the line, then a NUL
OpReadStr(v, imm1, rd, next_pc) ==
    IF ~validate_buffer_idx(imm1) THEN Fail(v, VM_ERR_INVALID_BUFFER_IDX, next_pc)
    ELSE LET n == IF Len(rd.line) < MEMBUF_U8_COUNT - 1
                  THEN Len(rd.line) ELSE MEMBUF_U8_COUNT - 1
             buf == Membuf(v, ToNat(imm1))
         IN  Ok(SetMembuf(v, ToNat(imm1),
                   [type |-> MB_U8,
                    buf |-> Put(PutBytes(buf.buf, 0, SubSeq(rd.line, 1, n)), n, 0, 0)]),
                next_pc)

(***************************************************************************)
(* vm_step: decode, dispatch, tail                                         *)
(***************************************************************************)
\* The four bytes memcpy'd from program[at]
ProgWord(v, at) ==
    << ProgByte(v, at), ProgByte(v, at + 1), ProgByte(v, at + 2), ProgByte(v, at + 3) >>

\* INSTR_PAYLOAD_LEN(hdr): the low nibble of the header's flags byte
INSTR_PAYLOAD_LEN(hdr) == hdr[3] % 16

\* The switch of vm_step: control flow, loads and stores
DispatchCore(v, opcode, operand, imm1, next_pc) ==
    CASE opcode = OP_NOP -> Ok(v, next_pc)
      [] opcode = OP_HALT -> Fail(v, VM_ERR_HALT, next_pc)
      [] opcode = OP_JMP -> OpJump(v, TRUE, imm1, next_pc)
      [] opcode = OP_JZ -> OpJump(v, FlagSet(v, FLAG_ZERO), imm1, next_pc)
      [] opcode = OP_JNZ -> OpJump(v, ~FlagSet(v, FLAG_ZERO), imm1, next_pc)
      [] opcode = OP_JLT -> OpJump(v, FlagSet(v, FLAG_LESS), imm1, next_pc)
      [] opcode = OP_JGT -> OpJump(v, FlagSet(v, FLAG_GREATER), imm1, next_pc)
      [] opcode = OP_JLE ->
            OpJump(v, FlagSet(v, FLAG_LESS) \/ FlagSet(v, FLAG_ZERO), imm1, next_pc)
      [] opcode = OP_JGE ->
            OpJump(v, FlagSet(v, FLAG_GREATER) \/ FlagSet(v, FLAG_ZERO), imm1, next_pc)
      [] opcode = OP_CALL -> OpCall(v, imm1, next_pc)
      [] opcode = OP_RET -> OpRet(v, next_pc)
      [] opcode = OP_LOAD_G -> OpLoadG(v, operand, imm1, next_pc)
      [] opcode = OP_LOAD_L -> OpLoadL(v, operand, imm1, next_pc)
      [] opcode = OP_LOAD_S -> OpLoadS(v, operand, imm1, next_pc)
      [] opcode = OP_LOAD_I_I32 -> OpLoadI(v, operand, V_I32, imm1, next_pc)
      [] opcode = OP_LOAD_I_U32 -> OpLoadI(v, operand, V_U32, imm1, next_pc)
      [] opcode = OP_LOAD_I_F32 -> OpLoadI(v, operand, V_FLOAT, imm1, next_pc)
      [] opcode = OP_LOAD_RET -> OpLoadRet(v, operand, imm1, next_pc)
      [] opcode = OP_STORE_G -> OpStoreG(v, operand, imm1, next_pc)
      [] opcode = OP_STORE_L -> OpStoreL(v, operand, imm1, next_pc)
      [] opcode = OP_STORE_S -> OpStoreS(v, operand, imm1, next_pc)
      [] opcode = OP_STORE_RET -> OpStoreRet(v, operand, imm1, next_pc)
      [] OTHER -> Fail(v, VM_ERR_INVALID_OPCODE, next_pc)

\* The switch of vm_step: integer, float and bitwise arithmetic
DispatchArith(v, opcode, operand, imm1, imm2, next_pc, rd) ==
    IF opcode \in BinaryOpcodes
    THEN OpBinary(v, opcode, operand, imm1, imm2, rd, next_pc)
    ELSE IF opcode \in UnaryOpcodes
    THEN OpUnary(v, opcode, operand, imm1, rd, next_pc)
    ELSE Fail(v, VM_ERR_INVALID_OPCODE, next_pc)

\* The switch of vm_step: comparisons, conversions, buffers, strings, I/O
DispatchData(v, opcode, operand, imm1, imm2, imm3, next_pc, rd) ==
    CASE opcode \in OP_CMP_I32 .. OP_CMP_F32 ->
            OpCmp(v, opcode, imm1, imm2, rd, next_pc)
      [] opcode \in UnaryOpcodes -> OpUnary(v, opcode, operand, imm1, rd, next_pc)
      [] opcode = OP_BUF_READ -> OpBufRead(v, operand, imm1, imm2, next_pc)
      [] opcode = OP_BUF_WRITE -> OpBufWrite(v, operand, imm1, imm2, next_pc)
      [] opcode = OP_BUF_LEN -> OpBufLen(v, operand, imm1, next_pc)
      [] opcode = OP_BUF_CLEAR -> OpBufClear(v, imm1, next_pc)
      [] opcode = OP_STR_CAT -> OpStrCat(v, operand, imm1, imm2, next_pc)
      [] opcode = OP_STR_COPY -> OpStrCopy(v, operand, imm1, next_pc)
      [] opcode = OP_STR_LEN -> OpStrLen(v, operand, imm1, next_pc)
      [] opcode = OP_STR_CMP -> OpStrCmp(v, imm1, imm2, next_pc)
      [] opcode = OP_STR_CHR -> OpStrChr(v, operand, imm1, imm2, next_pc)
      [] opcode = OP_STR_SET_CHR -> OpStrSetChr(v, imm1, imm2, imm3, next_pc)
      [] opcode \in OP_PRINT_I32 .. OP_PRINT_F32 ->
            OpPrint(v, opcode, imm1, rd, next_pc)
      [] opcode = OP_PRINT_STR -> OpPrintStr(v, imm1, next_pc)
      [] opcode = OP_PRINTLN -> Res(VM_OK, v, next_pc, <<10>>)
      [] opcode = OP_READ_I32 -> OpRead(v, operand, V_I32, rd, next_pc)
      [] opcode = OP_READ_U32 -> OpRead(v, operand, V_U32, rd, next_pc)
      [] opcode = OP_READ_F32 -> OpRead(v, operand, V_FLOAT, rd, next_pc)
      [] opcode = OP_READ_STR -> OpReadStr(v, imm1, rd, next_pc)
      [] OTHER -> Fail(v, VM_ERR_INVALID_OPCODE, next_pc)

\* The switch of vm_step with a default case that does nothing
M_Dispatch_SkipsUnknown(v, hdr, imm1, imm2, imm3, next_pc, rd) ==
    LET r == IF hdr[1] < OP_ADD_I32
             THEN DispatchCore(v, hdr[1], hdr[2], imm1, next_pc)
             ELSE IF hdr[1] < OP_CMP_I32
             THEN DispatchArith(v, hdr[1], hdr[2], imm1, imm2, next_pc, rd)
             ELSE DispatchData(v, hdr[1], hdr[2], imm1, imm2, imm3, next_pc, rd)
    IN  IF r.status = VM_ERR_INVALID_OPCODE THEN Ok(v, next_pc) ELSE r

Dispatch(v, hdr, imm1, imm2, imm3, next_pc, rd) ==
    IF hdr[1] < OP_ADD_I32 THEN DispatchCore(v, hdr[1], hdr[2], imm1, next_pc)
    ELSE IF hdr[1] < OP_CMP_I32
    THEN DispatchArith(v, hdr[1], hdr[2], imm1, imm2, next_pc, rd)
    ELSE DispatchData(v, hdr[1], hdr[2], imm1, imm2, imm3, next_pc, rd)

\* vm_step's tail advancing pc whatever the status
M_StepTail_AlwaysAdvances(r) ==
    [status |-> r.status,
     vm |-> [r.vm EXCEPT !.pc = r.next_pc, !.last_error = r.status],
     out |-> r.out]

\* vm_step's tail stepping over a HALT as over any other instruction
M_StepTail_HaltAdvances(r) ==
    IF r.status = SIGFPE THEN [status |-> SIGFPE, vm |-> r.vm, out |-> <<>>]
    ELSE [status |-> r.status,
          vm |-> [r.vm EXCEPT !.pc = IF r.status \in {VM_OK, VM_ERR_HALT}
                                     THEN r.next_pc ELSE @,
                              !.last_error = r.status],
          out |-> r.out]

\* The tail of vm_step: pc moves only on VM_OK, last_error always mirrors.
\* A handler that trapped never gets here.
StepTail(r) ==
    IF r.status = SIGFPE THEN [status |-> SIGFPE, vm |-> r.vm, out |-> <<>>]
    ELSE [status |-> r.status,
          vm |-> [r.vm EXCEPT !.pc = IF r.status = VM_OK THEN r.next_pc ELSE @,
                              !.last_error = r.status],
          out |-> r.out]

\* The decoder's early return forgetting last_error
M_DecodeFail_KeepsLastError(v, st) == [status |-> st, vm |-> v, out |-> <<>>]

\* The decoder's early returns
DecodeFail(v, st) ==
    [status |-> st, vm |-> [v EXCEPT !.last_error = st], out |-> <<>>]

\* vm_step reporting an instruction that extends past the program as
\* INVALID_PC
M_vm_step_ExtentIsInvalidPc(v, rd) ==
    IF v.pc >= v.program_len \/ v.program_len - v.pc < 4
    THEN DecodeFail(v, VM_ERR_INVALID_PC)
    ELSE LET hdr == ProgWord(v, v.pc)
             payload_len == INSTR_PAYLOAD_LEN(hdr)
             instr_size == 4 + payload_len * 4
         IN  IF payload_len > 3
             THEN DecodeFail(v, VM_ERR_INVALID_INSTRUCTION)
             ELSE IF v.pc + instr_size > v.program_len
             THEN DecodeFail(v, VM_ERR_INVALID_PC)
             ELSE LET imm1 == IF payload_len >= 1 THEN ProgWord(v, v.pc + 4) ELSE Zero32
                      imm2 == IF payload_len >= 2 THEN ProgWord(v, v.pc + 8) ELSE Zero32
                      imm3 == IF payload_len >= 3 THEN ProgWord(v, v.pc + 12) ELSE Zero32
                  IN  StepTail(Dispatch(v, hdr, imm1, imm2, imm3, v.pc + instr_size, rd))

vm_step(v, rd) ==
    IF v.pc >= v.program_len \/ v.program_len - v.pc < 4
    THEN DecodeFail(v, VM_ERR_INVALID_PC)
    ELSE LET hdr == ProgWord(v, v.pc)
             payload_len == INSTR_PAYLOAD_LEN(hdr)
             instr_size == 4 + payload_len * 4
         IN  IF v.pc + instr_size > v.program_len \/ payload_len > 3
             THEN DecodeFail(v, VM_ERR_INVALID_INSTRUCTION)
             ELSE LET imm1 == IF payload_len >= 1 THEN ProgWord(v, v.pc + 4) ELSE Zero32
                      imm2 == IF payload_len >= 2 THEN ProgWord(v, v.pc + 8) ELSE Zero32
                      imm3 == IF payload_len >= 3 THEN ProgWord(v, v.pc + 12) ELSE Zero32
                  IN  StepTail(Dispatch(v, hdr, imm1, imm2, imm3, v.pc + instr_size, rd))

\* vm_run handing HALT through instead of folding it to OK
M_RunResult_Raw(status) == status

\* vm_run's return value for the status that ended its loop
RunResult(status) == IF status = VM_ERR_HALT THEN VM_OK ELSE status


(***************************************************************************)
(* Diagnostics: vm_get_error_string.  A const char* is NULL or points to   *)
(* a string.                                                               *)
(***************************************************************************)
NULL == [null |-> TRUE, text |-> ""]
StrPtr(s) == [null |-> FALSE, text |-> s]

\* The table errors[]: its size is the largest designated index plus one,
\* and an element without an initializer is a null pointer
errors ==
    [s \in 0 .. VM_ERR_HALT |->
        CASE s = VM_OK -> StrPtr("Success")
          [] s = VM_ERR_STACK_OVERFLOW -> StrPtr("Stack overflow")
          [] s = VM_ERR_STACK_UNDERFLOW -> StrPtr("Stack underflow")
          [] s = VM_ERR_DIV_BY_ZERO -> StrPtr("Division by zero")
          [] s = VM_ERR_INVALID_OPCODE -> StrPtr("Invalid opcode")
          [] s = VM_ERR_TYPE_MISMATCH -> StrPtr("Type mismatch")
          [] s = VM_ERR_BOUNDS -> StrPtr("Array bounds exceeded")
          [] s = VM_ERR_INVALID_GLOBAL_IDX -> StrPtr("Invalid global index")
          [] s = VM_ERR_INVALID_LOCAL_IDX -> StrPtr("Invalid local index")
          [] s = VM_ERR_INVALID_STACK_VAR_IDX -> StrPtr("Invalid stack var index")
          [] s = VM_ERR_INVALID_BUFFER_IDX -> StrPtr("Invalid buffer index")
          [] s = VM_ERR_INVALID_BUFFER_POS -> StrPtr("Invalid buffer position")
          [] s = VM_ERR_INVALID_PC -> StrPtr("Invalid program counter")
          [] s = VM_ERR_INVALID_INSTRUCTION -> StrPtr("Invalid instruction")
          [] s = VM_ERR_PROGRAM_TOO_LARGE -> StrPtr("Program too large")
          [] s = VM_ERR_HALT -> StrPtr("Program halted")
          [] OTHER -> NULL]

\* vm_status_t has no negative enumerator: status is an unsigned value
vm_get_error_string(status) ==
    IF status <= VM_ERR_HALT THEN errors[status] ELSE StrPtr("Unknown error")

\* No vm_get_error_string call yet
NoMsg == [status |-> NO_STATUS, ptr |-> NULL]

(***************************************************************************)
(* The legacy engine (src/vm.c with its vm.h): global tables and the       *)
(* vm_init that clears them.  The record `legacy` holds the globals under  *)
(* their names; arrays are sparse maps over the all-zero element.          *)
(***************************************************************************)
STR_POOL_CAPACITY == 256
IMM_CAPACITY == 256
INTVAR_CAPACITY == 256
VARNAME_CAPACITY == 256
COND_CAPACITY == 256
VAR_STRING == 0
VAR_INT == 1

\* The all-zero struct varname and struct cond
ZeroVarname == [name |-> EmptyMap, type |-> VAR_STRING, idx |-> 0]
ZeroCond == [type |-> 0, op |-> 0, arg1 |-> 0, arg2 |-> 0, negate |-> 0]

\* The globals when the process starts: static storage is zero
LegacyStart ==
    [g_string_pool |-> [buf |-> EmptyMap, len |-> EmptyMap],
     g_imm |-> EmptyMap, g_intvar |-> EmptyMap, g_varnames |-> EmptyMap,
     g_cond_table |-> EmptyMap, g_cond_count |-> 0]

\* legacy_vm_init leaving the last variable-name entry as it was
M_legacy_vm_init_SkipsLast(g) ==
    LET last == VARNAME_CAPACITY - 1
        kept == IF last \in DOMAIN g.g_varnames THEN {last} ELSE {}
    IN  [g_string_pool |-> [buf |-> EmptyMap, len |-> EmptyMap],
         g_imm |-> EmptyMap,
         g_intvar |-> EmptyMap,
         g_varnames |->
             [i \in (0 .. (last - 1)) \cup kept |->
                 IF i < last THEN [name |-> EmptyMap, type |-> VAR_INT, idx |-> 0 - 1]
                 ELSE g.g_varnames[i]],
         g_cond_table |-> EmptyMap,
         g_cond_count |-> 0]

\* vm_init() of src/vm.c on the globals g: three memsets, the loop over
\* g_varnames, the loop over g_cond_table, and the count
legacy_vm_init(g) ==
    [g_string_pool |-> [buf |-> EmptyMap, len |-> EmptyMap],
     g_imm |-> EmptyMap,
     g_intvar |-> EmptyMap,
     g_varnames |->
         [i \in 0 .. (VARNAME_CAPACITY - 1) |->
             [name |-> EmptyMap, type |-> VAR_INT, idx |-> 0 - 1]],
     g_cond_table |-> EmptyMap,
     g_cond_count |-> 0]
(***************************************************************************)
(* Text written to stdout.  A string literal of the source is kept as a   *)
(* string; Bytes gives the characters fputs writes for it.                *)
(***************************************************************************)
Bytes(s) ==
    CASE s = "Success" -> <<83, 117, 99, 99, 101, 115, 115>>
      [] s = "Stack overflow" -> <<83, 116, 97, 99, 107, 32, 111, 118, 101, 114, 102, 108, 111, 119>>
      [] s = "Stack underflow" -> <<83, 116, 97, 99, 107, 32, 117, 110, 100, 101, 114, 102, 108, 111, 119>>
      [] s = "Division by zero" -> <<68, 105, 118, 105, 115, 105, 111, 110, 32, 98, 121, 32, 122, 101, 114, 111>>
      [] s = "Invalid opcode" -> <<73, 110, 118, 97, 108, 105, 100, 32, 111, 112, 99, 111, 100, 101>>
      [] s = "Type mismatch" -> <<84, 121, 112, 101, 32, 109, 105, 115, 109, 97, 116, 99, 104>>
      [] s = "Array bounds exceeded" -> <<65, 114, 114, 97, 121, 32, 98, 111, 117, 110, 100, 115, 32, 101, 120, 99, 101, 101, 100, 101, 100>>
      [] s = "Invalid global index" -> <<73, 110, 118, 97, 108, 105, 100, 32, 103, 108, 111, 98, 97, 108, 32, 105, 110, 100, 101, 120>>
      [] s = "Invalid local index" -> <<73, 110, 118, 97, 108, 105, 100, 32, 108, 111, 99, 97, 108, 32, 105, 110, 100, 101, 120>>
      [] s = "Invalid stack var index" -> <<73, 110, 118, 97, 108, 105, 100, 32, 115, 116, 97, 99, 107, 32, 118, 97, 114, 32, 105, 110, 100, 101, 120>>
      [] s = "Invalid buffer index" -> <<73, 110, 118, 97, 108, 105, 100, 32, 98, 117, 102, 102, 101, 114, 32, 105, 110, 100, 101, 120>>
      [] s = "Invalid buffer position" -> <<73, 110, 118, 97, 108, 105, 100, 32, 98, 117, 102, 102, 101, 114, 32, 112, 111, 115, 105, 116, 105, 111, 110>>
      [] s = "Invalid program counter" -> <<73, 110, 118, 97, 108, 105, 100, 32, 112, 114, 111, 103, 114, 97, 109, 32, 99, 111, 117, 110, 116, 101, 114>>
      [] s = "Invalid instruction" -> <<73, 110, 118, 97, 108, 105, 100, 32, 105, 110, 115, 116, 114, 117, 99, 116, 105, 111, 110>>
      [] s = "Program too large" -> <<80, 114, 111, 103, 114, 97, 109, 32, 116, 111, 111, 32, 108, 97, 114, 103, 101>>
      [] s = "Program halted" -> <<80, 114, 111, 103, 114, 97, 109, 32, 104, 97, 108, 116, 101, 100>>
      [] s = "nop" -> <<110, 111, 112>>
      [] s = "halt" -> <<104, 97, 108, 116>>
      [] s = "jmp" -> <<106, 109, 112>>
      [] s = "jz" -> <<106, 122>>
      [] s = "jnz" -> <<106, 110, 122>>
      [] s = "jlt" -> <<106, 108, 116>>
      [] s = "jgt" -> <<106, 103, 116>>
      [] s = "jle" -> <<106, 108, 101>>
      [] s = "jge" -> <<106, 103, 101>>
      [] s = "call" -> <<99, 97, 108, 108>>
      [] s = "ret" -> <<114, 101, 116>>
      [] s = "load.g" -> <<108, 111, 97, 100, 46, 103>>
      [] s = "load.l" -> <<108, 111, 97, 100, 46, 108>>
      [] s = "load.s" -> <<108, 111, 97, 100, 46, 115>>
      [] s = "load.i32" -> <<108, 111, 97, 100, 46, 105, 51, 50>>
      [] s = "load.u32" -> <<108, 111, 97, 100, 46, 117, 51, 50>>
      [] s = "load.f32" -> <<108, 111, 97, 100, 46, 102, 51, 50>>
      [] s = "load.ret" -> <<108, 111, 97, 100, 46, 114, 101, 116>>
      [] s = "store.g" -> <<115, 116, 111, 114, 101, 46, 103>>
      [] s = "store.l" -> <<115, 116, 111, 114, 101, 46, 108>>
      [] s = "store.s" -> <<115, 116, 111, 114, 101, 46, 115>>
      [] s = "store.ret" -> <<115, 116, 111, 114, 101, 46, 114, 101, 116>>
      [] s = "add.i32" -> <<97, 100, 100, 46, 105, 51, 50>>
      [] s = "sub.i32" -> <<115, 117, 98, 46, 105, 51, 50>>
      [] s = "mul.i32" -> <<109, 117, 108, 46, 105, 51, 50>>
      [] s = "div.i32" -> <<100, 105, 118, 46, 105, 51, 50>>
      [] s = "mod.i32" -> <<109, 111, 100, 46, 105, 51, 50>>
      [] s = "neg.i32" -> <<110, 101, 103, 46, 105, 51, 50>>
      [] s = "add.u32" -> <<97, 100, 100, 46, 117, 51, 50>>
      [] s = "sub.u32" -> <<115, 117, 98, 46, 117, 51, 50>>
      [] s = "mul.u32" -> <<109, 117, 108, 46, 117, 51, 50>>
      [] s = "div.u32" -> <<100, 105, 118, 46, 117, 51, 50>>
      [] s = "mod.u32" -> <<109, 111, 100, 46, 117, 51, 50>>
      [] s = "add.f32" -> <<97, 100, 100, 46, 102, 51, 50>>
      [] s = "sub.f32" -> <<115, 117, 98, 46, 102, 51, 50>>
      [] s = "mul.f32" -> <<109, 117, 108, 46, 102, 51, 50>>
      [] s = "div.f32" -> <<100, 105, 118, 46, 102, 51, 50>>
      [] s = "neg.f32" -> <<110, 101, 103, 46, 102, 51, 50>>
      [] s = "abs.f32" -> <<97, 98, 115, 46, 102, 51, 50>>
      [] s = "sqrt.f32" -> <<115, 113, 114, 116, 46, 102, 51, 50>>
      [] s = "and.u32" -> <<97, 110, 100, 46, 117, 51, 50>>
      [] s = "or.u32" -> <<111, 114, 46, 117, 51, 50>>
      [] s = "xor.u32" -> <<120, 111, 114, 46, 117, 51, 50>>
      [] s = "not.u32" -> <<110, 111, 116, 46, 117, 51, 50>>
      [] s = "shl.u32" -> <<115, 104, 108, 46, 117, 51, 50>>
      [] s = "shr.u32" -> <<115, 104, 114, 46, 117, 51, 50>>
      [] s = "cmp.i32" -> <<99, 109, 112, 46, 105, 51, 50>>
      [] s = "cmp.u32" -> <<99, 109, 112, 46, 117, 51, 50>>
      [] s = "cmp.f32" -> <<99, 109, 112, 46, 102, 51, 50>>
      [] s = "i32.to.u32" -> <<105, 51, 50, 46, 116, 111, 46, 117, 51, 50>>
      [] s = "u32.to.i32" -> <<117, 51, 50, 46, 116, 111, 46, 105, 51, 50>>
      [] s = "i32.to.f32" -> <<105, 51, 50, 46, 116, 111, 46, 102, 51, 50>>
      [] s = "u32.to.f32" -> <<117, 51, 50, 46, 116, 111, 46, 102, 51, 50>>
      [] s = "f32.to.i32" -> <<102, 51, 50, 46, 116, 111, 46, 105, 51, 50>>
      [] s = "f32.to.u32" -> <<102, 51, 50, 46, 116, 111, 46, 117, 51, 50>>
      [] s = "buf.read" -> <<98, 117, 102, 46, 114, 101, 97, 100>>
      [] s = "buf.write" -> <<98, 117, 102, 46, 119, 114, 105, 116, 101>>
      [] s = "buf.len" -> <<98, 117, 102, 46, 108, 101, 110>>
      [] s = "buf.clear" -> <<98, 117, 102, 46, 99, 108, 101, 97, 114>>
      [] s = "str.cat" -> <<115, 116, 114, 46, 99, 97, 116>>
      [] s = "str.copy" -> <<115, 116, 114, 46, 99, 111, 112, 121>>
      [] s = "str.len" -> <<115, 116, 114, 46, 108, 101, 110>>
      [] s = "str.cmp" -> <<115, 116, 114, 46, 99, 109, 112>>
      [] s = "str.chr" -> <<115, 116, 114, 46, 99, 104, 114>>
      [] s = "str.set_chr" -> <<115, 116, 114, 46, 115, 101, 116, 95, 99, 104, 114>>
      [] s = "print.i32" -> <<112, 114, 105, 110, 116, 46, 105, 51, 50>>
      [] s = "print.u32" -> <<112, 114, 105, 110, 116, 46, 117, 51, 50>>
      [] s = "print.f32" -> <<112, 114, 105, 110, 116, 46, 102, 51, 50>>
      [] s = "print.str" -> <<112, 114, 105, 110, 116, 46, 115, 116, 114>>
      [] s = "println" -> <<112, 114, 105, 110, 116, 108, 110>>
      [] s = "read.i32" -> <<114, 101, 97, 100, 46, 105, 51, 50>>
      [] s = "read.u32" -> <<114, 101, 97, 100, 46, 117, 51, 50>>
      [] s = "read.f32" -> <<114, 101, 97, 100, 46, 102, 51, 50>>
      [] s = "read.str" -> <<114, 101, 97, 100, 46, 115, 116, 114>>
      [] s = "void" -> <<118, 111, 105, 100>>
      [] s = "i32" -> <<105, 51, 50>>
      [] s = "u32" -> <<117, 51, 50>>
      [] s = "float" -> <<102, 108, 111, 97, 116>>
      [] s = "u8x4" -> <<117, 56, 120, 52>>
      [] s = "u16x2" -> <<117, 49, 54, 120, 50>>
      [] s = "unicode" -> <<117, 110, 105, 99, 111, 100, 101>>
      [] s = "global_ref" -> <<103, 108, 111, 98, 97, 108, 95, 114, 101, 102>>
      [] s = "stack_ref" -> <<115, 116, 97, 99, 107, 95, 114, 101, 102>>
      [] s = "buffer_ref" -> <<98, 117, 102, 102, 101, 114, 95, 114, 101, 102>>
      [] s = "buffer_pos" -> <<98, 117, 102, 102, 101, 114, 95, 112, 111, 115>>
      [] s = "=== VM State ===" -> <<61, 61, 61, 32, 86, 77, 32, 83, 116, 97, 116, 101, 32, 61, 61, 61>>
      [] s = "PC: " -> <<80, 67, 58, 32>>
      [] s = "  SP: " -> <<32, 32, 83, 80, 58, 32>>
      [] s = "  Flags: " -> <<32, 32, 70, 108, 97, 103, 115, 58, 32>>
      [] s = "Last Error: " -> <<76, 97, 115, 116, 32, 69, 114, 114, 111, 114, 58, 32>>
      [] s = "Stack Frame " -> <<83, 116, 97, 99, 107, 32, 70, 114, 97, 109, 101, 32>>
      [] s = ":" -> <<58>>
      [] s = "  s" -> <<32, 32, 115>>
      [] s = ": " -> <<58, 32>>
      [] s = " = " -> <<32, 61, 32>>
      [] s = ": <invalid>" -> <<58, 32, 60, 105, 110, 118, 97, 108, 105, 100, 62>>
      [] s = "Loaded " -> <<76, 111, 97, 100, 101, 100, 32>>
      [] s = " bytes from '" -> <<32, 98, 121, 116, 101, 115, 32, 102, 114, 111, 109, 32, 39>>
      [] s = "'" -> <<39>>
      [] s = "Executing..." -> <<69, 120, 101, 99, 117, 116, 105, 110, 103, 46, 46, 46>>
      [] s = "Program completed successfully." -> <<80, 114, 111, 103, 114, 97, 109, 32, 99, 111, 109, 112, 108, 101, 116, 101, 100, 32, 115, 117, 99, 99, 101, 115, 115, 102, 117, 108, 108, 121, 46>>
      [] s = "prog.bin" -> <<112, 114, 111, 103, 46, 98, 105, 110>>
      [] s = "unknown" -> <<117, 110, 107, 110, 111, 119, 110>>
      [] s = "Unknown error" -> <<85, 110, 107, 110, 111, 119, 110, 32, 101, 114, 114, 111, 114>>
      [] s = "Testing VM initialization..." -> <<84, 101, 115, 116, 105, 110, 103, 32, 86, 77, 32, 105, 110, 105, 116, 105, 97, 108, 105, 122, 97, 116, 105, 111, 110, 46, 46, 46>>
      [] s = " String pool initialized correctly" -> <<32, 83, 116, 114, 105, 110, 103, 32, 112, 111, 111, 108, 32, 105, 110, 105, 116, 105, 97, 108, 105, 122, 101, 100, 32, 99, 111, 114, 114, 101, 99, 116, 108, 121>>
      [] s = " Immediate values initialized correctly" -> <<32, 73, 109, 109, 101, 100, 105, 97, 116, 101, 32, 118, 97, 108, 117, 101, 115, 32, 105, 110, 105, 116, 105, 97, 108, 105, 122, 101, 100, 32, 99, 111, 114, 114, 101, 99, 116, 108, 121>>
      [] s = " Integer variables initialized correctly" -> <<32, 73, 110, 116, 101, 103, 101, 114, 32, 118, 97, 114, 105, 97, 98, 108, 101, 115, 32, 105, 110, 105, 116, 105, 97, 108, 105, 122, 101, 100, 32, 99, 111, 114, 114, 101, 99, 116, 108, 121>>
      [] s = " Variable names initialized correctly" -> <<32, 86, 97, 114, 105, 97, 98, 108, 101, 32, 110, 97, 109, 101, 115, 32, 105, 110, 105, 116, 105, 97, 108, 105, 122, 101, 100, 32, 99, 111, 114, 114, 101, 99, 116, 108, 121>>
      [] s = " Condition table initialized correctly" -> <<32, 67, 111, 110, 100, 105, 116, 105, 111, 110, 32, 116, 97, 98, 108, 101, 32, 105, 110, 105, 116, 105, 97, 108, 105, 122, 101, 100, 32, 99, 111, 114, 114, 101, 99, 116, 108, 121>>
      [] s = "All tests passed!" -> <<65, 108, 108, 32, 116, 101, 115, 116, 115, 32, 112, 97, 115, 115, 101, 100, 33>>

\* OP_MAX, one past the last opcode
OP_MAX == 169

\* The table ops[]: an opcode without an initializer has a null pointer
ops ==
    [opcode \in 0 .. OP_MAX - 1 |->
        CASE opcode = OP_NOP -> StrPtr("nop")
          [] opcode = OP_HALT -> StrPtr("halt")
          [] opcode = OP_JMP -> StrPtr("jmp")
          [] opcode = OP_JZ -> StrPtr("jz")
          [] opcode = OP_JNZ -> StrPtr("jnz")
          [] opcode = OP_JLT -> StrPtr("jlt")
          [] opcode = OP_JGT -> StrPtr("jgt")
          [] opcode = OP_JLE -> StrPtr("jle")
          [] opcode = OP_JGE -> StrPtr("jge")
          [] opcode = OP_CALL -> StrPtr("call")
          [] opcode = OP_RET -> StrPtr("ret")
          [] opcode = OP_LOAD_G -> StrPtr("load.g")
          [] opcode = OP_LOAD_L -> StrPtr("load.l")
          [] opcode = OP_LOAD_S -> StrPtr("load.s")
          [] opcode = OP_LOAD_I_I32 -> StrPtr("load.i32")
          [] opcode = OP_LOAD_I_U32 -> StrPtr("load.u32")
          [] opcode = OP_LOAD_I_F32 -> StrPtr("load.f32")
          [] opcode = OP_LOAD_RET -> StrPtr("load.ret")
          [] opcode = OP_STORE_G -> StrPtr("store.g")
          [] opcode = OP_STORE_L -> StrPtr("store.l")
          [] opcode = OP_STORE_S -> StrPtr("store.s")
          [] opcode = OP_STORE_RET -> StrPtr("store.ret")
          [] opcode = OP_ADD_I32 -> StrPtr("add.i32")
          [] opcode = OP_SUB_I32 -> StrPtr("sub.i32")
          [] opcode = OP_MUL_I32 -> StrPtr("mul.i32")
          [] opcode = OP_DIV_I32 -> StrPtr("div.i32")
          [] opcode = OP_MOD_I32 -> StrPtr("mod.i32")
          [] opcode = OP_NEG_I32 -> StrPtr("neg.i32")
          [] opcode = OP_ADD_U32 -> StrPtr("add.u32")
          [] opcode = OP_SUB_U32 -> StrPtr("sub.u32")
          [] opcode = OP_MUL_U32 -> StrPtr("mul.u32")
          [] opcode = OP_DIV_U32 -> StrPtr("div.u32")
          [] opcode = OP_MOD_U32 -> StrPtr("mod.u32")
          [] opcode = OP_ADD_F32 -> StrPtr("add.f32")
          [] opcode = OP_SUB_F32 -> StrPtr("sub.f32")
          [] opcode = OP_MUL_F32 -> StrPtr("mul.f32")
          [] opcode = OP_DIV_F32 -> StrPtr("div.f32")
          [] opcode = OP_NEG_F32 -> StrPtr("neg.f32")
          [] opcode = OP_ABS_F32 -> StrPtr("abs.f32")
          [] opcode = OP_SQRT_F32 -> StrPtr("sqrt.f32")
          [] opcode = OP_AND_U32 -> StrPtr("and.u32")
          [] opcode = OP_OR_U32 -> StrPtr("or.u32")
          [] opcode = OP_XOR_U32 -> StrPtr("xor.u32")
          [] opcode = OP_NOT_U32 -> StrPtr("not.u32")
          [] opcode = OP_SHL_U32 -> StrPtr("shl.u32")
          [] opcode = OP_SHR_U32 -> StrPtr("shr.u32")
          [] opcode = OP_CMP_I32 -> StrPtr("cmp.i32")
          [] opcode = OP_CMP_U32 -> StrPtr("cmp.u32")
          [] opcode = OP_CMP_F32 -> StrPtr("cmp.f32")
          [] opcode = OP_I32_TO_U32 -> StrPtr("i32.to.u32")
          [] opcode = OP_U32_TO_I32 -> StrPtr("u32.to.i32")
          [] opcode = OP_I32_TO_F32 -> StrPtr("i32.to.f32")
          [] opcode = OP_U32_TO_F32 -> StrPtr("u32.to.f32")
          [] opcode = OP_F32_TO_I32 -> StrPtr("f32.to.i32")
          [] opcode = OP_F32_TO_U32 -> StrPtr("f32.to.u32")
          [] opcode = OP_BUF_READ -> StrPtr("buf.read")
          [] opcode = OP_BUF_WRITE -> StrPtr("buf.write")
          [] opcode = OP_BUF_LEN -> StrPtr("buf.len")
          [] opcode = OP_BUF_CLEAR -> StrPtr("buf.clear")
          [] opcode = OP_STR_CAT -> StrPtr("str.cat")
          [] opcode = OP_STR_COPY -> StrPtr("str.copy")
          [] opcode = OP_STR_LEN -> StrPtr("str.len")
          [] opcode = OP_STR_CMP -> StrPtr("str.cmp")
          [] opcode = OP_STR_CHR -> StrPtr("str.chr")
          [] opcode = OP_STR_SET_CHR -> StrPtr("str.set_chr")
          [] opcode = OP_PRINT_I32 -> StrPtr("print.i32")
          [] opcode = OP_PRINT_U32 -> StrPtr("print.u32")
          [] opcode = OP_PRINT_F32 -> StrPtr("print.f32")
          [] opcode = OP_PRINT_STR -> StrPtr("print.str")
          [] opcode = OP_PRINTLN -> StrPtr("println")
          [] opcode = OP_READ_I32 -> StrPtr("read.i32")
          [] opcode = OP_READ_U32 -> StrPtr("read.u32")
          [] opcode = OP_READ_F32 -> StrPtr("read.f32")
          [] opcode = OP_READ_STR -> StrPtr("read.str")
          [] OTHER -> NULL]

opcode_to_string(opcode) ==
    IF opcode >= OP_MAX THEN "unknown"
    ELSE IF ops[opcode].null THEN "unknown" ELSE ops[opcode].text

\* The last var_value_type_t
V_BUF_POS == 10

var_type_to_string(type) ==
    IF type <= V_BUF_POS
    THEN << "void", "i32", "u32", "float", "u8x4", "u16x2", "unicode", "global_ref", "stack_ref", "buffer_ref", "buffer_pos" >>[type + 1]
    ELSE "unknown"

\* print_hex16 and print_hex8: "0x" and the hexadecimal digits, upper case
HexDigit(d) == IF d < 10 THEN 48 + d ELSE 55 + d
print_hex16(value) ==
    << 48, 120, HexDigit((value \div 4096) % 16), HexDigit((value \div 256) % 16),
       HexDigit((value \div 16) % 16), HexDigit(value % 16) >>
print_hex8(value) == << 48, 120, HexDigit((value \div 16) % 16), HexDigit(value % 16) >>

\* vm_disassemble_instruction: the address as a uint16_t, then the name of
\* the opcode there or <invalid>
vm_disassemble_instruction(v, pc) ==
    IF pc >= v.program_len \/ v.program_len - pc < 4
    THEN print_hex16(pc % 65536) \o Bytes(": <invalid>") \o <<10>>
    ELSE print_hex16(pc % 65536) \o Bytes(": ")
         \o Bytes(opcode_to_string(ProgByte(v, pc))) \o <<10>>

\* The line vm_dump_state writes for slot i of the active frame: nothing
\* for a V_VOID slot, the value for the three numeric tags
DumpSlot(v, i, fpu) ==
    LET s == get_stack_var(v, i)
    IN  IF s.type = V_VOID THEN <<>>
        ELSE Bytes("  s") \o print_u32(FromNat(i)) \o Bytes(": ")
             \o Bytes(var_type_to_string(s.type)) \o Bytes(" = ")
             \o (IF s.type = V_I32 THEN print_i32(s.val)
                 ELSE IF s.type = V_U32 THEN print_u32(s.val)
                 ELSE IF s.type = V_FLOAT THEN print_f32(s.val, fpu)
                 ELSE <<>>)
             \o <<10>>

RECURSIVE DumpSlots(_, _, _)
DumpSlots(v, i, fpu) ==
    IF i = STACK_VAR_COUNT THEN <<>>
    ELSE DumpSlot(v, i, fpu) \o DumpSlots(v, i + 1, fpu)

\* vm_dump_state up to the text of last_error
DumpHead(v) ==
    Bytes("=== VM State ===") \o <<10>>
    \o Bytes("PC: ") \o print_hex16(v.pc % 65536)
    \o Bytes("  SP: ") \o print_u32(FromNat(v.sp))
    \o Bytes("  Flags: ") \o print_hex8(v.flags) \o <<10>>
    \o Bytes("Last Error: ")

\* vm_dump_state: pc, sp, flags, the text of last_error and the slots of
\* the active frame.  For a status without a text fputs gets a null
\* pointer: the process is killed there, and what it wrote ends with
\* "Last Error: ".
vm_dump_state(v, fpu) ==
    IF vm_get_error_string(v.last_error).null THEN DumpHead(v)
    ELSE DumpHead(v) \o Bytes(vm_get_error_string(v.last_error).text) \o <<10>>
         \o <<10>> \o Bytes("Stack Frame ") \o print_u32(FromNat(v.sp))
         \o Bytes(":") \o <<10>>
         \o DumpSlots(v, 0, fpu)

(***************************************************************************)
(* Bytecode encoding (instruction_header_t and its payload words)          *)
(***************************************************************************)
RECURSIVE Flat(_)
Flat(ws) == IF ws = <<>> THEN <<>> ELSE Head(ws) \o Flat(Tail(ws))

\* An instruction whose header announces exactly the payload words given;
\* t1 is the (informational) imm_type1 nibble of the flags byte.
InsT(op, operand, ws, t1) == <<op, operand, Len(ws) + 16 * t1, 0>> \o Flat(ws)
Ins(op, operand, ws) == InsT(op, operand, ws, 0)

\* A payload word holding a small number, and one holding a stack_var_ref_t
N(n) == FromNat(n)
Ref(frame, var) == MkWord(var, frame)

Prog(code) == [code |-> code, len |-> Len(code)]

(***************************************************************************)
(* Bounds of the model                                                     *)
(***************************************************************************)
\* vm_load_program calls the host makes in one behaviour of Spec
MaxLoads == 2

\* Bytes of the longest line stdin holds
LongLineLen == 300

\* vm_dump_state and vm_disassemble_instruction calls the host makes in one
\* behaviour of Spec
MaxDumps == 1

(***************************************************************************)
(* What stdin and the platform may deliver to one vm_step call             *)
(***************************************************************************)
Env(scan, line, trap, fpu) ==
    [scan |-> scan, line |-> line, trap |-> trap, fpu |-> fpu]

NoScan == [ok |-> FALSE, w |-> Zero32]
\* scanf fails, or converts "42" or "-1" with %d, %u or %f
ScanSamples == {NoScan, [ok |-> TRUE, w |-> N(42)], [ok |-> TRUE, w |-> MinusOne]}
FloatScanSamples ==
    {NoScan, [ok |-> TRUE, w |-> F32OfInt(0, 42)], [ok |-> TRUE, w |-> F32OfInt(1, 1)]}

LongLine == [i \in 1 .. LongLineLen |-> 66]
LineSamples == {<<>>, <<72, 105>>, LongLine}

\* The platforms: x86-64 with SSE, whose default NaN is negative and whose
\* conversions deliver the integer indefinite value, and AArch64, whose
\* default NaN is positive and whose conversions saturate; either hands
\* through the first or the second of two NaN operands
Fpu(nan_sign, second, sat) == [nan_sign |-> nan_sign, second |-> second, sat |-> sat]
FpuSamples == {Fpu(1, sec, FALSE) : sec \in BOOLEAN} \cup {Fpu(0, sec, TRUE) : sec \in BOOLEAN}
NoFpu == Fpu(1, FALSE, FALSE)

FloatOpcodes ==
    (OP_ADD_F32 .. OP_SQRT_F32) \cup (OP_I32_TO_F32 .. OP_F32_TO_U32)
    \cup {OP_CMP_F32, OP_PRINT_F32}

\* The deliveries that matter to the instruction at pc
InputsFor(v) ==
    LET op == ProgByte(v, v.pc)
    IN  CASE op \in {OP_READ_I32, OP_READ_U32} ->
               {Env(s, <<>>, FALSE, NoFpu) : s \in ScanSamples}
          [] op = OP_READ_F32 ->
               {Env(s, <<>>, FALSE, NoFpu) : s \in FloatScanSamples}
          [] op = OP_READ_STR ->
               {Env(NoScan, l, FALSE, NoFpu) : l \in LineSamples}
          [] op \in {OP_DIV_I32, OP_MOD_I32} ->
               {Env(NoScan, <<>>, t, NoFpu) : t \in BOOLEAN}
          [] op \in FloatOpcodes ->
               {Env(NoScan, <<>>, FALSE, f) : f \in FpuSamples}
          [] OTHER -> {Env(NoScan, <<>>, FALSE, NoFpu)}

(***************************************************************************)
(* The programs the host of Spec loads                                     *)
(***************************************************************************)
\* 0: CALL 0 -- a subroutine that only calls itself
P_Recurse == Prog(Ins(OP_CALL, 0, <<N(0)>>))
\* 0: RET
P_Ret == Prog(Ins(OP_RET, 0, <<>>))
\* 0: NOP  4: NOP  8: CALL 20  16: HALT  20: RET
P_CallRet ==
    Prog(Ins(OP_NOP, 0, <<>>) \o Ins(OP_NOP, 0, <<>>) \o Ins(OP_CALL, 0, <<N(20)>>)
         \o Ins(OP_HALT, 0, <<>>) \o Ins(OP_RET, 0, <<>>))
\* 0: NOP  4: JMP 0
P_Loop == Prog(Ins(OP_NOP, 0, <<>>) \o Ins(OP_JMP, 0, <<N(0)>>))
\* one byte more than the instruction memory holds
P_TooLarge == [code |-> Ins(OP_HALT, 0, <<>>), len |-> PROGRAM_MAX_SIZE + 1]
\* exactly as much as the instruction memory holds: HALT, then zero bytes
P_Full == [code |-> Ins(OP_HALT, 0, <<>>), len |-> PROGRAM_MAX_SIZE]

\* A program that leaves its mark everywhere: s0 = I32 7, global 2, local 5,
\* slot 2 of frame 3, ret_val of frame 4, flags = Z, buffer 1 = a line of
\* stdin, "7" printed
P_Dirty ==
    Prog(Ins(OP_LOAD_I_I32, 0, <<N(7)>>) \o Ins(OP_STORE_G, 0, <<N(2)>>)
         \o Ins(OP_STORE_L, 0, <<N(5)>>) \o Ins(OP_STORE_S, 0, <<Ref(3, 2)>>)
         \o Ins(OP_STORE_RET, 0, <<N(4)>>) \o Ins(OP_CMP_I32, 0, <<N(0), N(0)>>)
         \o Ins(OP_READ_STR, 0, <<N(1)>>) \o Ins(OP_PRINT_I32, 0, <<N(0)>>)
         \o Ins(OP_HALT, 0, <<>>))

ApiPrograms == {P_Recurse, P_Ret, P_CallRet, P_Loop, P_TooLarge, P_Full, P_Dirty}

(***************************************************************************)
(* The programs that are loaded once and run: a prelude that fills slots,  *)
(* flags, a global, a local and a string buffer, one instruction under     *)
(* test, HALT                                                              *)
(***************************************************************************)
\* s0 = I32 7, s1 = I32 0, s2 = U32 5, s3 = U32 0, s4 = F32 2.0, s5 = F32 0.0,
\* s8 = U32 40, s9 = I32 INT32_MIN, s10 = I32 -1; flags = G; g1 = s0;
\* l1 = s2; buffer 1 = a line of stdin.  s6 and s7 stay Void.
Prelude ==
    Ins(OP_LOAD_I_I32, 0, <<N(7)>>) \o Ins(OP_LOAD_I_I32, 1, <<N(0)>>)
    \o Ins(OP_LOAD_I_U32, 2, <<N(5)>>) \o Ins(OP_LOAD_I_U32, 3, <<N(0)>>)
    \o Ins(OP_LOAD_I_F32, 4, <<F32OfInt(0, 2)>>) \o Ins(OP_LOAD_I_F32, 5, <<Zero32>>)
    \o Ins(OP_LOAD_I_U32, 8, <<N(40)>>) \o Ins(OP_LOAD_I_I32, 9, <<INT32_MIN>>)
    \o Ins(OP_LOAD_I_I32, 10, <<MinusOne>>)
    \o Ins(OP_CMP_I32, 0, <<N(0), N(1)>>)
    \o Ins(OP_STORE_G, 0, <<N(1)>>) \o InsT(OP_STORE_L, 2, <<N(1)>>, 3)
    \o Ins(OP_READ_STR, 0, <<N(1)>>)

\* The address of the instruction under test
TestPc == Len(Prelude)

\* Opcode bytes without a handler, one from each reserved range
ReservedOpcodes == {11, 23, 47, 59, 71, 86, 99, 118, 132, 150, 169, 255}

\* Payload words under test (the third word of every instruction under
\* test is 65).  Jump and call targets: the HALT, and past the program.
JumpWords == { <<N(TestPc + 16), N(1)>>, <<N(300), N(1)>> }

\* Global and local indices, and stack_var_ref_t references
MemWords ==
    { <<N(0), N(1)>>, <<N(1), N(1)>>, <<N(16), N(1)>>, <<N(300), N(1)>>,
      <<Ref(0, 1), N(1)>>, <<Ref(0, 16), N(1)>>, <<Ref(1, 3), N(1)>>,
      <<Ref(STACK_DEPTH, 0), N(1)>> }

\* Pairs of slot numbers
SlotWords ==
    { <<N(0), N(1)>>, <<N(1), N(0)>>, <<N(2), N(3)>>, <<N(3), N(2)>>,
      <<N(2), N(8)>>, <<N(4), N(5)>>, <<N(5), N(4)>>, <<N(9), N(10)>>,
      <<N(7), N(0)>>, <<N(16), N(0)>>, <<N(0), N(16)>>,
      <<N(0), N(2)>>, <<N(2), N(4)>>, <<N(4), N(0)>>, <<N(4), N(7)>> }

\* A buffer index with a position or a second buffer index
BufWords ==
    { <<N(1), N(0)>>, <<N(1), N(1)>>, <<N(1), N(255)>>, <<N(1), N(256)>>,
      <<N(0), N(1)>>, <<N(1), N(300)>>, <<N(300), N(1)>> }

BufOpcodes == (OP_BUF_READ .. OP_STR_SET_CHR) \cup {OP_PRINT_STR, OP_READ_STR}

WordsFor(op) ==
    IF op <= OP_RET THEN JumpWords
    ELSE IF op <= OP_STORE_RET THEN MemWords
    ELSE IF op \in BufOpcodes THEN BufWords
    ELSE SlotWords

\* The operand byte is 6 (a Void slot, an untouched buffer) with every
\* payload, 1 (an operand of the instruction itself) and 16 (no slot)
\* with the first payload of the opcode's kind, and 3 with the slots 2 and
\* 3 as sources
BaseWords == { <<N(0), N(1)>>, <<N(1), N(0)>>, <<N(TestPc + 16), N(1)>> }

CasesFor(op) ==
    {<<6, ws>> : ws \in WordsFor(op)}
    \cup {<<d, ws>> : d \in {1, 16}, ws \in WordsFor(op) \cap BaseWords}
    \cup {<<3, ws>> : ws \in WordsFor(op) \cap {<<N(2), N(3)>>}}

TestOpcodes ==
    (OP_NOP .. OP_RET) \cup (OP_LOAD_G .. OP_LOAD_RET)
    \cup (OP_STORE_G .. OP_STORE_RET) \cup (OP_ADD_I32 .. OP_MOD_U32)
    \cup (OP_ADD_F32 .. OP_SQRT_F32) \cup (OP_AND_U32 .. OP_SHR_U32)
    \cup (OP_CMP_I32 .. OP_CMP_F32) \cup (OP_I32_TO_U32 .. OP_F32_TO_U32)
    \cup (OP_BUF_READ .. OP_BUF_CLEAR) \cup (OP_STR_CAT .. OP_STR_SET_CHR)
    \cup (OP_PRINT_I32 .. OP_READ_STR) \cup ReservedOpcodes

TestPrograms ==
    { Prog(Prelude \o Ins(c[1], c[2][1], c[2][2] \o <<N(65)>>)
           \o Ins(OP_HALT, 0, <<>>)) :
        c \in UNION { {<<op, k>> : k \in CasesFor(op)} : op \in TestOpcodes } }
\* 0: NOP  4: CALL encoded with k payload words  then HALT, then RET.  The
\* target is the RET, or address 0 when the CALL carries no payload word.
P_CallEnc(k) ==
    Prog(Ins(OP_NOP, 0, <<>>)
         \o Ins(OP_CALL, 0, [i \in 1 .. k |-> IF i = 1 THEN N(12 + 4 * k) ELSE Zero32])
         \o Ins(OP_HALT, 0, <<>>) \o Ins(OP_RET, 0, <<>>))

CallPrograms == {P_CallEnc(k) : k \in 0 .. 3}

\* The caller stages slot 3 and ret_val of frame 1, sets flags, a global
\* and a buffer, and calls the subroutine at `sub` twice
CallTwiceHead(sub) ==
    Ins(OP_LOAD_I_I32, 0, <<N(7)>>) \o Ins(OP_STORE_S, 0, <<Ref(1, 3)>>)
    \o Ins(OP_STORE_RET, 0, <<N(1)>>) \o Ins(OP_CMP_I32, 0, <<N(0), N(0)>>)
    \o Ins(OP_STORE_G, 0, <<N(2)>>) \o Ins(OP_READ_STR, 0, <<N(1)>>)
    \o Ins(OP_CALL, 0, <<N(sub)>>) \o Ins(OP_CALL, 0, <<N(sub)>>)
    \o Ins(OP_HALT, 0, <<>>)

\* The subroutine stores its slot 3 into its local 5 and returns
P_CallTwice ==
    Prog(CallTwiceHead(Len(CallTwiceHead(0)))
         \o Ins(OP_STORE_L, 3, <<N(5)>>) \o Ins(OP_RET, 0, <<>>))

\* The function call of the usage example, result = add(a, b):
\*  0: LOAD_I_I32 s0, a   8: STORE_S s0, {1,0}  16: LOAD_I_I32 s1, b
\* 24: STORE_S s1, {1,1}  32: CALL 64           40: LOAD_RET s0, 1
\* 48: PRINT_I32 s0       56: PRINTLN           60: HALT
\* 64: ADD_I32 s2, s0, s1 76: STORE_RET s2, 1   84: RET
P_AddCall(a, b) ==
    Prog(Ins(OP_LOAD_I_I32, 0, <<a>>) \o Ins(OP_STORE_S, 0, <<Ref(1, 0)>>)
         \o Ins(OP_LOAD_I_I32, 1, <<b>>) \o Ins(OP_STORE_S, 1, <<Ref(1, 1)>>)
         \o Ins(OP_CALL, 0, <<N(64)>>) \o Ins(OP_LOAD_RET, 0, <<N(1)>>)
         \o Ins(OP_PRINT_I32, 0, <<N(0)>>) \o Ins(OP_PRINTLN, 0, <<>>)
         \o Ins(OP_HALT, 0, <<>>)
         \o Ins(OP_ADD_I32, 2, <<N(0), N(1)>>) \o Ins(OP_STORE_RET, 2, <<N(1)>>)
         \o Ins(OP_RET, 0, <<>>))

\* Arguments of add with the sum and the text a caller expects:
\* 5 + 3 = 8, -7 + 2 = -5, 2147483647 + 1 wrapping to -2147483648
AddArgs ==
    { [a |-> <<5, 0, 0, 0>>, b |-> <<3, 0, 0, 0>>, sum |-> <<8, 0, 0, 0>>,
       text |-> <<56, 10>>],
      [a |-> <<249, 255, 255, 255>>, b |-> <<2, 0, 0, 0>>,
       sum |-> <<251, 255, 255, 255>>, text |-> <<45, 53, 10>>],
      [a |-> <<255, 255, 255, 127>>, b |-> <<1, 0, 0, 0>>,
       sum |-> <<0, 0, 0, 128>>,
       text |-> <<45, 50, 49, 52, 55, 52, 56, 51, 54, 52, 56, 10>>] }

AddPrograms == {P_AddCall(x.a, x.b) : x \in AddArgs}

\* Programs the decoder refuses: no bytes, half a header, a payload cut
\* short, a payload_len nibble above 3
P_Empty == Prog(<<>>)
P_HalfHeader == Prog(<<OP_NOP, 0>>)
P_CutPayload == Prog(<<OP_LOAD_I_I32, 0, 2, 0>> \o N(7))
P_BadLen(n) == [code |-> <<OP_NOP, 0, n, 0>>, len |-> 4 + 4 * n]
\* 0: NOP  4: ADD_I32 announcing two payload words, the second one missing
P_CutTail == Prog(Ins(OP_NOP, 0, <<>>) \o <<OP_ADD_I32, 2, 2, 0>> \o N(0))
\* a payload_len nibble above 3 whose payload is missing as well
P_BadLenCut == Prog(<<OP_NOP, 0, 5, 0>>)
\* 0: NOP -- execution runs off the end of the program
P_RunOff == Prog(Ins(OP_NOP, 0, <<>>))

\* The opcode bytes opcode_t assigns, and the 182 it does not
AssignedOpcodes == TestOpcodes \ ReservedOpcodes
UnassignedOpcodes == (0 .. 255) \ AssignedOpcodes

\* 0: LOAD_I_I32 s0, 7  8: a well-formed instruction with opcode byte op
\* and two payload words  20: HALT
P_Unassigned(op) ==
    Prog(Ins(OP_LOAD_I_I32, 0, <<N(7)>>) \o Ins(op, 0, <<N(0), N(0)>>)
         \o Ins(OP_HALT, 0, <<>>))

UnassignedPrograms == {P_Unassigned(op) : op \in UnassignedOpcodes}

\* 0: LOAD_I_U32 s0, a  8: LOAD_I_U32 s1, k  16: LOAD_I_I32 s2, 7
\* 24: SHL_U32 or SHR_U32 s2, s0, s1  36: HALT
P_Shift(op, a, k) ==
    Prog(Ins(OP_LOAD_I_U32, 0, <<a>>) \o Ins(OP_LOAD_I_U32, 1, <<k>>)
         \o Ins(OP_LOAD_I_I32, 2, <<N(7)>>) \o Ins(op, 2, <<N(0), N(1)>>)
         \o Ins(OP_HALT, 0, <<>>))

\* Values shifted: 0xC0000005, 1, 0xFFFFFFFF; counts: 0, 1, 4, 31, 32, 33,
\* 257 and 0x80000000
ShiftValues == { <<5, 0, 0, 192>>, <<1, 0, 0, 0>>, <<255, 255, 255, 255>> }
ShiftCounts ==
    { <<0, 0, 0, 0>>, <<1, 0, 0, 0>>, <<4, 0, 0, 0>>, <<31, 0, 0, 0>>,
      <<32, 0, 0, 0>>, <<33, 0, 0, 0>>, <<1, 1, 0, 0>>, <<0, 0, 0, 128>> }

ShiftPrograms ==
    { P_Shift(op, a, k) :
        op \in {OP_SHL_U32, OP_SHR_U32}, a \in ShiftValues, k \in ShiftCounts }

\* 0: LOAD_I_F32 s0, a  8: LOAD_I_F32 s1, b  16: a float instruction
\* s2, s0, s1  28: HALT
P_Float(op, a, b) ==
    Prog(Ins(OP_LOAD_I_F32, 0, <<a>>) \o Ins(OP_LOAD_I_F32, 1, <<b>>)
         \o Ins(op, 2, <<N(0), N(1)>>) \o Ins(OP_HALT, 0, <<>>))

\* 2.0, 0.0, -0.0, a quiet NaN, +infinity, -4.0
FloatValues ==
    { <<0, 0, 0, 64>>, <<0, 0, 0, 0>>, <<0, 0, 0, 128>>, <<0, 0, 192, 127>>,
      <<0, 0, 128, 127>>, <<0, 0, 128, 192>> }

FloatPrograms ==
    { P_Float(op, a, b) :
        op \in OP_ADD_F32 .. OP_DIV_F32, a \in FloatValues, b \in FloatValues }
    \cup { P_Float(op, a, Zero32) :
             op \in OP_NEG_F32 .. OP_SQRT_F32, a \in FloatValues }

\* 0: LOAD_I s0, a  8: LOAD_I s1, b  16: CMP s1, s0 (the earlier
\* comparison)  28: CMP s0, s1  40: HALT, all of the type of the CMP opcode
P_Cmp(op, a, b) ==
    LET load == IF op = OP_CMP_I32 THEN OP_LOAD_I_I32 ELSE OP_LOAD_I_U32
    IN  Prog(Ins(load, 0, <<a>>) \o Ins(load, 1, <<b>>)
             \o Ins(op, 0, <<N(1), N(0)>>) \o Ins(op, 0, <<N(0), N(1)>>)
             \o Ins(OP_HALT, 0, <<>>))

\* Bit patterns compared, each with its rank as int32_t and as uint32_t:
\* 0, 5, 0x80000000 (INT32_MIN), 0xFFFFFFFF (-1)
CmpArgs ==
    { [w |-> <<0, 0, 0, 0>>, i32 |-> 2, u32 |-> 0],
      [w |-> <<5, 0, 0, 0>>, i32 |-> 3, u32 |-> 1],
      [w |-> <<0, 0, 0, 128>>, i32 |-> 0, u32 |-> 2],
      [w |-> <<255, 255, 255, 255>>, i32 |-> 1, u32 |-> 3] }

CmpPrograms ==
    { P_Cmp(op, x.w, y.w) :
        op \in {OP_CMP_I32, OP_CMP_U32}, x \in CmpArgs, y \in CmpArgs }

\* The conditional branch of the usage examples:
\*  0: LOAD_I_I32 s0, 5  8: LOAD_I_I32 s1, 3  16: CMP_I32 s0, s1
\* 28: JLT 52           36: PRINT_I32 s0      44: JMP 60
\* 52: PRINT_I32 s1     60: PRINTLN           64: HALT
P_Branch ==
    Prog(Ins(OP_LOAD_I_I32, 0, <<N(5)>>) \o Ins(OP_LOAD_I_I32, 1, <<N(3)>>)
         \o Ins(OP_CMP_I32, 0, <<N(0), N(1)>>) \o Ins(OP_JLT, 0, <<N(52)>>)
         \o Ins(OP_PRINT_I32, 0, <<N(0)>>) \o Ins(OP_JMP, 0, <<N(60)>>)
         \o Ins(OP_PRINT_I32, 0, <<N(1)>>) \o Ins(OP_PRINTLN, 0, <<>>)
         \o Ins(OP_HALT, 0, <<>>))

\* 0: LOAD_I_I32 s0, a  8: LOAD_I_I32 s1, b  16: CMP_I32 s0, s1, or NOP
\* with the same payload when cmp is FALSE  28: the jump under test
\* 36: PRINTLN  40: HALT  44: NOP  48: HALT
P_Jump(cmp, a, b, op, target) ==
    Prog(Ins(OP_LOAD_I_I32, 0, <<N(a)>>) \o Ins(OP_LOAD_I_I32, 1, <<N(b)>>)
         \o Ins(IF cmp THEN OP_CMP_I32 ELSE OP_NOP, 0, <<N(0), N(1)>>)
         \o Ins(op, 0, <<N(target)>>)
         \o Ins(OP_PRINTLN, 0, <<>>) \o Ins(OP_HALT, 0, <<>>)
         \o Ins(OP_NOP, 0, <<>>) \o Ins(OP_HALT, 0, <<>>))

\* Targets: the NOP, the last byte of the program, the address just past
\* it, and one far beyond
JumpTargets == {44, 51, 52, 300}

\* Flags G, L, Z, and none
JumpPrograms ==
    { P_Jump(c[1], c[2], c[3], op, t) :
        c \in {<<TRUE, 7, 0>>, <<TRUE, 0, 7>>, <<TRUE, 0, 0>>, <<FALSE, 0, 0>>},
        op \in OP_JMP .. OP_JGE, t \in JumpTargets }
    \cup {P_Branch}

(***************************************************************************)
(* Buffers the host fills before it loads a program                        *)
(***************************************************************************)
\* A membuf_t of the given tag holding the bytes bs from byte 0 on
FilledBuf(type, bs) == [type |-> type, buf |-> PutBytes(EmptyMap, 0, bs)]
Repeat(n, c) == [i \in 1 .. n |-> c]

\* "Hello, " and "World!"
HelloBytes == <<72, 101, 108, 108, 111, 44, 32>>
WorldBytes == <<87, 111, 114, 108, 100, 33>>

\* The string buffers of the concatenation example
D_Example ==
    (0 :> FilledBuf(MB_U8, HelloBytes)) @@ (1 :> FilledBuf(MB_U8, WorldBytes))

\* 256 bytes without a zero among them: 1, 2, ..., 255, 1
PatternBytes == [i \in 1 .. 256 |-> ((i - 1) % 255) + 1]

\* b0 = "Hello, ", b1 = "World!", b2 untouched, b3 = "" followed by stale
\* bytes, b4 = 255 bytes and the NUL, b5 = 256 bytes and no NUL, b6 = 200
\* bytes, b7 .. b10 = U16, I32, U32 and F32 arrays over the pattern
D_Full ==
    D_Example
    @@ (3 :> FilledBuf(MB_U8, <<0, 122, 122>>))
    @@ (4 :> FilledBuf(MB_U8, Repeat(255, 65)))
    @@ (5 :> FilledBuf(MB_U8, Repeat(256, 66)))
    @@ (6 :> FilledBuf(MB_U8, Repeat(200, 67)))
    @@ (7 :> FilledBuf(MB_U16, PatternBytes))
    @@ (8 :> FilledBuf(MB_I32, PatternBytes))
    @@ (9 :> FilledBuf(MB_U32, PatternBytes))
    @@ (10 :> FilledBuf(MB_FLOAT, PatternBytes))

Preloads == {D_Example, D_Full}

\* 0: LOAD_I s0, w  8: BUF_WRITE s0, bi, pos  20: BUF_READ s1, bi, pos
\* 32: HALT
P_BufRW(load, w, bi, pos) ==
    Prog(Ins(load, 0, <<w>>) \o Ins(OP_BUF_WRITE, 0, <<bi, pos>>)
         \o Ins(OP_BUF_READ, 1, <<bi, pos>>) \o Ins(OP_HALT, 0, <<>>))

\* 0: BUF_READ s1, bi, pos  12: HALT
P_BufRead(bi, pos) ==
    Prog(Ins(OP_BUF_READ, 1, <<bi, pos>>) \o Ins(OP_HALT, 0, <<>>))

\* Sources written: I32 42, I32 -2, U32 0x1234ABCD, F32 2.0
BufSources ==
    { <<OP_LOAD_I_I32, <<42, 0, 0, 0>> >>, <<OP_LOAD_I_I32, <<254, 255, 255, 255>> >>,
      <<OP_LOAD_I_U32, <<205, 171, 52, 18>> >>, <<OP_LOAD_I_F32, <<0, 0, 0, 64>> >> }

\* Buffer indices: the untouched b2, the U8 b5, the typed b7 .. b10, and
\* two that do not exist
BufIndices == {N(2), N(5), N(7), N(8), N(9), N(10), N(256), N(300)}

\* Positions: around every capacity, and 65541 whose low half is 5
BufPositions ==
    {N(0), N(5), N(63), N(64), N(127), N(128), N(255), N(256), <<5, 0, 1, 0>>}

BufAccessPrograms ==
    { P_BufRW(s[1], s[2], bi, pos) :
        s \in BufSources, bi \in BufIndices, pos \in BufPositions }
    \cup { P_BufRead(bi, pos) : bi \in BufIndices, pos \in BufPositions }

\* 0: STR_CAT dest, a, b  12: PRINT_STR dest  20: PRINTLN  24: HALT
P_Cat(dest, a, b) ==
    Prog(Ins(OP_STR_CAT, dest, <<N(a), N(b)>>) \o Ins(OP_PRINT_STR, 0, <<N(dest)>>)
         \o Ins(OP_PRINTLN, 0, <<>>) \o Ins(OP_HALT, 0, <<>>))

CatPrograms ==
    { P_Cat(dest, a, b) :
        dest \in {0, 1, 2, 4}, a \in {0, 1, 3, 4, 5, 6, 7}, b \in {0, 1, 3, 4, 5, 6, 7} }

\* 0: STR_SET_CHR bi, pos, chr  16: STR_LEN s0, bi  24: HALT
P_SetLen(bi, pos, chr) ==
    Prog(Ins(OP_STR_SET_CHR, 0, <<N(bi), N(pos), N(chr)>>)
         \o Ins(OP_STR_LEN, 0, <<N(bi)>>) \o Ins(OP_HALT, 0, <<>>))

\* A byte stored at the start, over the terminator of b4, inside the
\* strings, and a NUL stored inside them
LenPrograms ==
    { P_SetLen(bi, pos, chr) :
        bi \in {0, 1, 2, 3, 4, 5, 6, 7}, pos \in {0, 3, 255}, chr \in {0, 88} }

\* 0: STR_COPY dest, a  8: STR_CMP dest, a  20: HALT
P_CopyCmp(dest, a) ==
    Prog(Ins(OP_STR_COPY, dest, <<N(a)>>) \o Ins(OP_STR_CMP, 0, <<N(dest), N(a)>>)
         \o Ins(OP_HALT, 0, <<>>))

CopyPrograms ==
    { P_CopyCmp(dest, a) : dest \in {0, 2, 3, 4, 5, 8}, a \in {0, 1, 3, 4, 5, 6, 8} }

\* 0: STR_CAT c, a, e  12: STR_CMP c, a  24: HALT
P_CatCmp(c, a, e) ==
    Prog(Ins(OP_STR_CAT, c, <<N(a), N(e)>>) \o Ins(OP_STR_CMP, 0, <<N(c), N(a)>>)
         \o Ins(OP_HALT, 0, <<>>))

\* e is b3, the empty string; c is an untouched buffer, a itself, e itself
\* or another string
CatCmpPrograms ==
    { P_CatCmp(c, a, 3) : c \in {0, 2, 3, 4, 5}, a \in {0, 1, 3, 4, 5, 6} }


\* 0: LOAD_I_I32 s0, x  8: LOAD_I_I32 s1, y  16: CMP_I32 s0, s1 (flags
\* before)  28: STR_CAT b2, b0, b1 ("Hello, World!", of which b0 is a
\* proper prefix)  40: STR_CMP a, b  52: HALT
P_StrCmp(x, y, a, b) ==
    Prog(Ins(OP_LOAD_I_I32, 0, <<N(x)>>) \o Ins(OP_LOAD_I_I32, 1, <<N(y)>>)
         \o Ins(OP_CMP_I32, 0, <<N(0), N(1)>>)
         \o Ins(OP_STR_CAT, 2, <<N(0), N(1)>>)
         \o Ins(OP_STR_CMP, 0, <<N(a), N(b)>>) \o Ins(OP_HALT, 0, <<>>))

\* Flags G or L before; every pair of b0 .. b8
StrCmpPrograms ==
    { P_StrCmp(c[1], c[2], a, b) :
        c \in {<<7, 0>>, <<0, 7>>}, a \in 0 .. 8, b \in 0 .. 8 }

\* 0: READ_STR bi  8: STR_LEN s0, bi  16: HALT
P_ReadStr(bi) ==
    Prog(Ins(OP_READ_STR, 0, <<N(bi)>>) \o Ins(OP_STR_LEN, 0, <<N(bi)>>)
         \o Ins(OP_HALT, 0, <<>>))

\* Into an untouched buffer, over 256 non-NUL bytes, over typed arrays, and
\* into a buffer that does not exist
ReadStrPrograms == { P_ReadStr(bi) : bi \in {0, 2, 5, 7, 10, 256} }

\*  0: LOAD_I_U32 s0, 999   8: CALL 20   16: HALT
\* 20: LOAD_I_U32 s0, 16   28: the store under test
\* 36: CALL 48             44: RET
\* 48: LOAD_I_U32 s0, 7    56: the store under test   64: RET
P_Pairing(store, imm) ==
    Prog(Ins(OP_LOAD_I_U32, 0, <<N(999)>>) \o Ins(OP_CALL, 0, <<N(20)>>)
         \o Ins(OP_HALT, 0, <<>>)
         \o Ins(OP_LOAD_I_U32, 0, <<N(16)>>) \o Ins(store, 0, <<imm>>)
         \o Ins(OP_CALL, 0, <<N(48)>>) \o Ins(OP_RET, 0, <<>>)
         \o Ins(OP_LOAD_I_U32, 0, <<N(7)>>) \o Ins(store, 0, <<imm>>)
         \o Ins(OP_RET, 0, <<>>))

\* Stores into the last slot and into ret_val of the caller's frame, the
\* running frame, the frames above it and the last frame; into the last
\* local and the last global; and one into a frame that does not exist
PairingPrograms ==
    { P_Pairing(OP_STORE_S, Ref(f, 15)) : f \in {0, 1, 2, 3, 31, 32} }
    \cup { P_Pairing(OP_STORE_RET, N(f)) : f \in {0, 1, 2, 3, 31} }
    \cup { P_Pairing(OP_STORE_L, N(63)), P_Pairing(OP_STORE_G, N(255)) }

\*  0: LOAD_I_U32 s0, 65    8: READ_STR b1         16: BUF_WRITE s0, b1, 3
\* 28: BUF_CLEAR b1        36: STR_COPY b2, b1     44: STR_CAT b3, b1, b2
\* 56: first s1, bx, 0     68: second s1, bx, 0    80: BUF_CLEAR bx
\* 88: HALT
P_Tags(first, second, x) ==
    Prog(Ins(OP_LOAD_I_U32, 0, <<N(65)>>) \o Ins(OP_READ_STR, 0, <<N(1)>>)
         \o Ins(OP_BUF_WRITE, 0, <<N(1), N(3)>>) \o Ins(OP_BUF_CLEAR, 0, <<N(1)>>)
         \o Ins(OP_STR_COPY, 2, <<N(1)>>) \o Ins(OP_STR_CAT, 3, <<N(1), N(2)>>)
         \o Ins(first, 1, <<N(x), N(0)>>) \o Ins(second, 1, <<N(x), N(0)>>)
         \o Ins(OP_BUF_CLEAR, 0, <<N(x)>>) \o Ins(OP_HALT, 0, <<>>))

\* BUF_READ and BUF_WRITE, in either order, on the three buffers the
\* string producers have written and on two they have not
TagPrograms ==
    { P_Tags(o[1], o[2], x) :
        o \in {<<OP_BUF_READ, OP_BUF_WRITE>>, <<OP_BUF_WRITE, OP_BUF_READ>>,
               <<OP_BUF_CLEAR, OP_BUF_WRITE>>},
        x \in {1, 2, 3, 4, 255} }
\* The programs run over preloaded buffers
BufPrograms ==
    BufAccessPrograms \cup CatPrograms \cup LenPrograms \cup CopyPrograms
    \cup CatCmpPrograms \cup StrCmpPrograms
    \cup ReadStrPrograms

MainPrograms ==
    TestPrograms \cup CallPrograms \cup ApiPrograms
    \cup AddPrograms \cup UnassignedPrograms \cup ShiftPrograms
    \cup FloatPrograms \cup CmpPrograms \cup JumpPrograms \cup PairingPrograms
    \cup TagPrograms
    \cup {P_CallTwice, P_Empty, P_HalfHeader, P_CutPayload}
    \cup {P_CutTail, P_BadLenCut, P_RunOff}
    \cup {P_BadLen(n) : n \in 4 .. 15}

(***************************************************************************)
(* The host: any sequence of API calls on one engine                       *)
(***************************************************************************)
Init ==
    /\ vm = vm_init
    /\ out = <<>>
    /\ running = FALSE
    /\ last_call = "vm_init"
    /\ step_status = NO_STATUS
    /\ ret = NO_STATUS
    /\ loads = 0
    /\ msg = NoMsg
    /\ legacy = LegacyStart
    /\ calls = <<>>
    /\ dumps = 0

\* The process exists: no call has been killed by a signal
Alive == last_call \notin {"SIGFPE", "SIGSEGV"}

HostInit ==
    /\ Alive /\ ~running
    /\ vm' = vm_init
    /\ last_call' = "vm_init"
    /\ step_status' = NO_STATUS
    /\ ret' = NO_STATUS
    /\ calls' = <<>>
    /\ UNCHANGED <<out, running, loads, msg, legacy, dumps>>

HostReset ==
    /\ Alive /\ ~running
    /\ vm' = vm_reset
    /\ last_call' = "vm_reset"
    /\ step_status' = NO_STATUS
    /\ ret' = NO_STATUS
    /\ calls' = <<>>
    /\ UNCHANGED <<out, running, loads, msg, legacy, dumps>>

Load(p) ==
    /\ Alive /\ ~running
    /\ LET r == vm_load_program(vm, p)
       IN  /\ vm' = r.vm
           /\ ret' = r.status
    /\ last_call' = "vm_load_program"
    /\ step_status' = NO_STATUS
    /\ loads' = loads + 1
    /\ UNCHANGED <<out, running, msg, legacy, calls, dumps>>

HostLoad == \E p \in ApiPrograms : loads < MaxLoads /\ Load(p)

\* The history after a vm_step call on v that returned status: a successful
\* CALL adds the address of the instruction after it, a successful RET
\* removes the newest address
CallsAfter(v, status) ==
    IF status # VM_OK THEN calls
    ELSE IF ProgByte(v, v.pc) = OP_CALL
    THEN Append(calls, v.pc + 4 + 4 * INSTR_PAYLOAD_LEN(ProgWord(v, v.pc)))
    ELSE IF ProgByte(v, v.pc) = OP_RET /\ calls # <<>>
    THEN SubSeq(calls, 1, Len(calls) - 1)
    ELSE calls

\* What a vm_step call leaves behind when it returns r.status, or when the
\* process dies in it; before is what the caller wrote to stdout first
StepEffect(r, caller, before) ==
    /\ vm' = r.vm
    /\ calls' = CallsAfter(vm, r.status)
    /\ out' = out \o before \o r.out
    /\ step_status' = IF r.status = SIGFPE THEN NO_STATUS ELSE r.status
    /\ last_call' = IF r.status = SIGFPE THEN "SIGFPE" ELSE caller

HostStep ==
    /\ Alive /\ ~running
    /\ \E rd \in InputsFor(vm) :
         \E r \in {vm_step(vm, rd)} :
             /\ StepEffect(r, "vm_step", <<>>)
             /\ ret' = IF r.status = SIGFPE THEN NO_STATUS ELSE r.status
    /\ UNCHANGED <<running, loads, msg, legacy, dumps>>

\* One iteration of vm_run's loop: a vm_step call, then either the next
\* iteration or the return
RunIteration(before) ==
    /\ Alive
    /\ \E rd \in InputsFor(vm) :
         \E r \in {vm_step(vm, rd)} :
             /\ StepEffect(r, "vm_run", before)
             /\ running' = (r.status = VM_OK)
             /\ ret' = IF r.status \in {VM_OK, SIGFPE} THEN NO_STATUS
                       ELSE RunResult(r.status)
    /\ UNCHANGED <<loads, msg, legacy, dumps>>

\* The host calls vm_run: the first iteration
HostRun == ~running /\ RunIteration(<<>>)

\* vm_run continues
RunLoop == running /\ RunIteration(<<>>)

\* What print_f32 needs from the platform when vm_dump_state meets a float
DumpInputs(v) ==
    IF \E i \in 0 .. STACK_VAR_COUNT - 1 : get_stack_var(v, i).type = V_FLOAT
    THEN FpuSamples ELSE {NoFpu}

\* The host calls vm_dump_state.  With a last_error that has no text the
\* call hands fputs a null pointer and the process is killed in it, after
\* the bytes up to "Last Error: ".
HostDump ==
    /\ Alive /\ ~running
    /\ dumps < MaxDumps
    /\ \E f \in DumpInputs(vm) :
         /\ out' = out \o vm_dump_state(vm, f)
         /\ last_call' = IF vm_get_error_string(vm.last_error).null
                         THEN "SIGSEGV" ELSE "vm_dump_state"
    /\ dumps' = dumps + 1
    /\ UNCHANGED <<vm, running, step_status, ret, loads, msg, legacy, calls>>

\* The addresses the host disassembles: the instruction at pc, the one at
\* 8, and 65541, which no program reaches and a uint16_t does not hold
DisassembleSamples(v) == {v.pc, 8, 65541}

\* The host calls vm_disassemble_instruction
HostDisassemble ==
    /\ Alive /\ ~running
    /\ dumps < MaxDumps
    /\ \E pc \in DisassembleSamples(vm) :
         out' = out \o vm_disassemble_instruction(vm, pc)
    /\ last_call' = "vm_disassemble_instruction"
    /\ dumps' = dumps + 1
    /\ UNCHANGED <<vm, running, step_status, ret, loads, msg, legacy, calls>>

Next ==
    \/ HostInit \/ HostReset \/ HostLoad \/ HostStep \/ HostRun \/ RunLoop
    \/ HostDump \/ HostDisassemble

Spec == Init /\ [][Next]_vars

\* A host that starts over with vm_reset only
ResetNext ==
    \/ HostReset \/ HostLoad \/ HostStep \/ HostRun \/ RunLoop
    \/ HostDump \/ HostDisassemble

ResetSpec == Init /\ [][ResetNext]_vars

\* vm_run is never preempted: its loop keeps iterating
FairSpec == Spec /\ WF_vars(RunLoop)

(***************************************************************************)
(* vm-main: main loads the file named on the command line, reports its     *)
(* size, calls vm_init and vm_load_program, announces and calls vm_run,    *)
(* and reports how the run ended.  What it writes to stderr is not kept.   *)
(***************************************************************************)
\* argv[1]
FileName == "prog.bin"

\* The files load_file accepts: it refuses one above PROGRAM_MAX_SIZE, and
\* main returns before it has an engine
MainFiles == {p \in MainPrograms : p.len <= PROGRAM_MAX_SIZE}

LoadedLine(len) ==
    Bytes("Loaded ") \o print_u32(FromNat(len)) \o Bytes(" bytes from '")
    \o Bytes(FileName) \o Bytes("'") \o <<10>>

ExecutingLine == Bytes("Executing...") \o <<10>>

CompletedLines == <<10>> \o Bytes("Program completed successfully.") \o <<10>>

\* main up to the successful return of vm_load_program
MainInit ==
    \E p \in MainFiles :
        /\ vm = vm_load_program(vm_init, p).vm
        /\ out = LoadedLine(p.len)
        /\ running = FALSE
        /\ last_call = "vm_load_program"
        /\ step_status = NO_STATUS
        /\ ret = vm_load_program(vm_init, p).status
        /\ loads = 1
        /\ msg = NoMsg
        /\ legacy = LegacyStart
        /\ calls = <<>>
        /\ dumps = 0

MainRun ==
    /\ last_call = "vm_load_program" /\ ret = VM_OK
    /\ ~running
    /\ RunIteration(ExecutingLine)

\* vm_run has returned: the closing message, or vm_dump_state after an
\* error; main returns 0 or 1, unless vm_dump_state is killed at a
\* last_error without a text
MainReport ==
    /\ Alive /\ ~running
    /\ last_call = "vm_run"
    /\ \E f \in DumpInputs(vm) :
         out' = out \o (IF ret = VM_OK THEN CompletedLines ELSE vm_dump_state(vm, f))
    /\ \E died \in {ret # VM_OK /\ vm_get_error_string(vm.last_error).null} :
         /\ last_call' = IF died THEN "SIGSEGV" ELSE "main"
         /\ ret' = IF died THEN ret ELSE IF ret = VM_OK THEN 0 ELSE 1
    /\ UNCHANGED <<vm, running, step_status, loads, msg, legacy, calls, dumps>>

MainNext == MainRun \/ RunLoop \/ MainReport

MainSpec == MainInit /\ [][MainNext]_vars


(***************************************************************************)
(* A caller of the API that, unlike main, hands vm_load_program a program  *)
(* of any size and loads again between calls, without vm_init in between:  *)
(* the first program is any of MainPrograms, a later one is refused, fills *)
(* the instruction memory, or is a single RET                              *)
(***************************************************************************)
ReloadPrograms == {P_TooLarge, P_Full, P_Ret}

CallerLoad ==
    \E p \in (IF loads = 0 THEN MainPrograms ELSE ReloadPrograms) :
        loads < MaxLoads /\ Load(p)

CallerNext == CallerLoad \/ HostStep \/ HostRun \/ RunLoop

CallerSpec == Init /\ [][CallerNext]_vars
(***************************************************************************)
(* A caller of the engine that keeps data in the buffers.  vm_state_t is   *)
(* a public structure and no instruction gives a buffer a type other than  *)
(* U8, so such a caller fills g_membuf itself after vm_init; then it calls *)
(* vm_load_program and vm_run.  vm-main does not do this.                  *)
(***************************************************************************)
Preload(d) ==
    /\ last_call = "vm_init"
    /\ vm' = [vm EXCEPT !.g_membuf = d]
    /\ last_call' = "preload"
    /\ UNCHANGED <<out, running, step_status, ret, loads, msg, legacy, calls, dumps>>

HostPreload == \E d \in Preloads : Preload(d)

BufLoad == \E p \in BufPrograms : last_call = "preload" /\ Load(p)

BufRun == last_call = "vm_load_program" /\ ret = VM_OK /\ HostRun

BufNext == HostPreload \/ BufLoad \/ BufRun \/ RunLoop

BufSpec == Init /\ [][BufNext]_vars


(***************************************************************************)
(* A host that asks for the text of a status                               *)
(***************************************************************************)
\* Every vm_status_t value and values beyond the enumeration, INT32_MAX
\* among them
StatusSamples == (0 .. (8 * VM_ERR_HALT)) \cup {2147483647}

GetErrorString(status) ==
    /\ msg' = [status |-> status, ptr |-> vm_get_error_string(status)]
    /\ last_call' = "vm_get_error_string"
    /\ UNCHANGED <<vm, out, running, step_status, ret, loads, legacy, calls, dumps>>

HostDiag == \E s \in StatusSamples : GetErrorString(s)

DiagNext == HostDiag

DiagSpec == Init /\ [][DiagNext]_vars

(***************************************************************************)
(* A program linked with the legacy engine: code that fills the global     *)
(* tables, which vm.h declares extern, and vm_init() whenever it likes     *)
(***************************************************************************)
\* Table indices written: the first and the last element
LegacyIndices == {0, STR_POOL_CAPACITY - 1}

\* The globals after one write: a 2-byte string "hi" in the pool, an
\* immediate -5, an integer variable 7, a variable name "x" bound to
\* string 3, or a condition appended to the table
LegacyWrites(g) ==
    { [g EXCEPT !.g_string_pool.len = Put(@, i, 2, 0),
                !.g_string_pool.buf = Put(@, i, <<104, 105>>, <<>>)] : i \in LegacyIndices }
    \cup { [g EXCEPT !.g_imm = Put(@, i, 0 - 5, 0)] : i \in LegacyIndices }
    \cup { [g EXCEPT !.g_intvar = Put(@, i, 7, 0)] : i \in LegacyIndices }
    \cup { [g EXCEPT !.g_varnames =
               Put(@, i, [name |-> PutBytes(EmptyMap, 0, <<120>>),
                          type |-> VAR_STRING, idx |-> 3], ZeroVarname)] :
           i \in LegacyIndices }
    \cup { [g EXCEPT !.g_cond_table =
               Put(@, i, [type |-> 1, op |-> 6, arg1 |-> 0, arg2 |-> 1, negate |-> 1],
                   ZeroCond),
                     !.g_cond_count = i + 1] : i \in LegacyIndices }

\* What last_call holds while test_vm.c's main runs, and the calls after
\* which vm_init() of src/vm.c has just returned
TestCalls == {"test_vm printf", "test_vm vm_init", "test_vm return", "SIGABRT"}
LegacyInitCalls == {"legacy vm_init", "test_vm vm_init"}

LegacyWrite ==
    /\ last_call \notin TestCalls
    /\ \E g \in LegacyWrites(legacy) : legacy' = g
    /\ last_call' = "write"
    /\ UNCHANGED <<vm, out, running, step_status, ret, loads, msg, calls, dumps>>

LegacyInit ==
    /\ last_call \notin TestCalls
    /\ legacy' = legacy_vm_init(legacy)
    /\ last_call' = "legacy vm_init"
    /\ UNCHANGED <<vm, out, running, step_status, ret, loads, msg, calls, dumps>>

(***************************************************************************)
(* test_vm.c: main announces itself, calls vm_init() on the globals as     *)
(* the process starts with them, asserts table by table that they are      *)
(* clear, writing a line after each, and returns 0                         *)
(***************************************************************************)
\* The check mark of the progress lines, in UTF-8
CheckMark == <<226, 156, 147>>
TestLine(s) == CheckMark \o Bytes(s) \o <<10>>

\* The five groups of assertions on the globals g, in main's order
TestChecks(g) ==
    << \A i \in 0 .. (STR_POOL_CAPACITY - 1) : Get(g.g_string_pool.len, i, 0) = 0,
       \A i \in 0 .. (IMM_CAPACITY - 1) : Get(g.g_imm, i, 0) = 0,
       \A i \in 0 .. (INTVAR_CAPACITY - 1) : Get(g.g_intvar, i, 0) = 0,
       \A i \in 0 .. (VARNAME_CAPACITY - 1) :
           Get(g.g_varnames, i, ZeroVarname).idx = 0 - 1,
       /\ \A i \in 0 .. (COND_CAPACITY - 1) :
              /\ Get(g.g_cond_table, i, ZeroCond).type = 0
              /\ Get(g.g_cond_table, i, ZeroCond).op = 0
       /\ g.g_cond_count = 0 >>

\* The line main writes after each group
TestLines ==
    << TestLine(" String pool initialized correctly"),
       TestLine(" Immediate values initialized correctly"),
       TestLine(" Integer variables initialized correctly"),
       TestLine(" Variable names initialized correctly"),
       TestLine(" Condition table initialized correctly") >>

\* How many groups pass before the first assertion that fails
RECURSIVE TestPassed(_, _)
TestPassed(g, k) ==
    IF k > 5 \/ ~TestChecks(g)[k] THEN k - 1 ELSE TestPassed(g, k + 1)

\* The lines of the first n groups
RECURSIVE TestOutput(_)
TestOutput(n) == IF n = 0 THEN <<>> ELSE TestOutput(n - 1) \o TestLines[n]

\* main, line 13: the process has just started
LegacyTestStart ==
    /\ last_call = "vm_init" /\ out = <<>> /\ legacy = LegacyStart
    /\ out' = out \o Bytes("Testing VM initialization...") \o <<10>>
    /\ last_call' = "test_vm printf"
    /\ UNCHANGED <<vm, running, step_status, ret, loads, msg, legacy, calls, dumps>>

\* main, line 16
LegacyTestInit ==
    /\ last_call = "test_vm printf"
    /\ legacy' = legacy_vm_init(legacy)
    /\ last_call' = "test_vm vm_init"
    /\ UNCHANGED <<vm, out, running, step_status, ret, loads, msg, calls, dumps>>

\* main, lines 18 to 52: an assertion that fails aborts the process
LegacyTestVerify ==
    /\ last_call = "test_vm vm_init"
    /\ \E n \in {TestPassed(legacy, 1)} :
         /\ out' = out \o TestOutput(n)
                    \o (IF n = 5 THEN <<10>> \o Bytes("All tests passed!") \o <<10>>
                        ELSE <<>>)
         /\ last_call' = IF n = 5 THEN "test_vm return" ELSE "SIGABRT"
         /\ ret' = IF n = 5 THEN 0 ELSE ret
    /\ UNCHANGED <<vm, running, step_status, loads, msg, legacy, calls, dumps>>

LegacyNext ==
    \/ LegacyWrite \/ LegacyInit
    \/ LegacyTestStart \/ LegacyTestInit \/ LegacyTestVerify

LegacySpec == Init /\ [][LegacyNext]_vars
(***************************************************************************)
(* Vocabulary of the properties                                            *)
(***************************************************************************)
\* The transition is a vm_step call (the host's own, or one of vm_run's)
StepCalled == last_call' \in {"vm_step", "vm_run"}

\* vm_step's decoder accepts the instruction at pc, and its opcode is op
AtOpcode(v, op) ==
    /\ v.pc + 4 <= v.program_len
    /\ INSTR_PAYLOAD_LEN(ProgWord(v, v.pc)) <= 3
    /\ v.pc + 4 + 4 * INSTR_PAYLOAD_LEN(ProgWord(v, v.pc)) <= v.program_len
    /\ ProgByte(v, v.pc) = op

\* The first payload word of the instruction at pc, as the decoder reads it
Imm1At(v) ==
    IF INSTR_PAYLOAD_LEN(ProgWord(v, v.pc)) >= 1 THEN ProgWord(v, v.pc + 4) ELSE Zero32

(***************************************************************************)
(* C2: 0 <= sp <= 31 in every reachable state; only CALL increases sp, by  *)
(* exactly 1 and only from sp < 31; among instructions only RET decreases  *)
(* it, by exactly 1 and only from sp > 0 (vm_init and vm_reset, which are  *)
(* not instructions, set it back to 0).                                    *)
(***************************************************************************)
C2_SpStep ==
    /\ vm'.sp > vm.sp =>
         /\ StepCalled /\ AtOpcode(vm, OP_CALL)
         /\ vm'.sp = vm.sp + 1 /\ vm.sp < STACK_DEPTH - 1
    /\ vm'.sp < vm.sp =>
         \/ last_call' \in {"vm_init", "vm_reset"} /\ vm'.sp = 0
         \/ /\ StepCalled /\ AtOpcode(vm, OP_RET)
            /\ vm'.sp = vm.sp - 1 /\ vm.sp > 0

C2_StackPointer ==
    /\ [](vm.sp \in 0 .. (STACK_DEPTH - 1))
    /\ [][C2_SpStep]_vars

\* A successful CALL has just raised sp to its maximum
C2_Witness ==
    /\ vm.sp = STACK_DEPTH - 1 /\ step_status = VM_OK /\ last_call = "vm_step"

(***************************************************************************)
(* C3: at every instruction boundary, after any sequence of vm_init,       *)
(* vm_load_program, vm_step and vm_run, 0 <= pc <= program_len.            *)
(***************************************************************************)
C3_PcInProgram == 0 <= vm.pc /\ vm.pc <= vm.program_len

(***************************************************************************)
(* C4: vm_run stops at the first non-OK status of vm_step; it returns OK   *)
(* iff that status is HALT and otherwise that status; while it has not     *)
(* returned, every vm_step so far returned OK.                             *)
(***************************************************************************)
C4_RunStopsAtFirstNonOk ==
    /\ running => step_status = VM_OK /\ last_call = "vm_run"
    /\ (last_call = "vm_run" /\ ~running) =>
         /\ step_status # VM_OK
         /\ (ret = VM_OK) <=> (step_status = VM_ERR_HALT)
         /\ step_status # VM_ERR_HALT => ret = step_status

\* vm_run has returned OK after executing CALL, RET and HALT of P_CallRet
C4_Witness ==
    /\ last_call = "vm_run" /\ ~running /\ ret = VM_OK
    /\ step_status = VM_ERR_HALT /\ vm.pc = 16 /\ Frame(vm, 1).return_addr = 16

(***************************************************************************)
(* C5: vm_run is a bounded loop: whatever program is loaded and whatever   *)
(* the start state, a vm_run that has been entered returns after finitely  *)
(* many vm_step calls.                                                     *)
(***************************************************************************)
C5_RunReturns == running ~> ~running

(***************************************************************************)
(* C7: a CALL with a valid target succeeds whenever sp < 31 and raises sp  *)
(* by one, so a chain of nested CALLs from sp = 0 succeeds exactly 31      *)
(* times; a CALL at sp = 31 returns StackOverflow, leaves sp = 31, leaves  *)
(* pc at the failing CALL and modifies no frame, and vm_run returns that   *)
(* status.                                                                 *)
(***************************************************************************)
C7_CallStep ==
    (StepCalled /\ AtOpcode(vm, OP_CALL)) =>
        /\ (vm.sp < STACK_DEPTH - 1 /\ ~U32GeNat(Imm1At(vm), vm.program_len)) =>
             step_status' = VM_OK /\ vm'.sp = vm.sp + 1
        /\ vm.sp = STACK_DEPTH - 1 =>
             /\ step_status' = VM_ERR_STACK_OVERFLOW
             /\ vm'.sp = STACK_DEPTH - 1
             /\ vm'.pc = vm.pc
             /\ vm'.stack_frames = vm.stack_frames
             /\ last_call' = "vm_run" =>
                  ~running' /\ ret' = VM_ERR_STACK_OVERFLOW

C7_OverflowPath == [][C7_CallStep]_vars

\* vm_run has surfaced the overflow of the 32nd CALL of P_Recurse
C7_Witness ==
    /\ vm.sp = STACK_DEPTH - 1 /\ vm.pc = 0 /\ AtOpcode(vm, OP_CALL)
    /\ last_call = "vm_run" /\ ~running /\ ret = VM_ERR_STACK_OVERFLOW
    /\ \A f \in 1 .. (STACK_DEPTH - 1) : Frame(vm, f).return_addr = 8

(***************************************************************************)
(* C8: RET at sp = 0 returns StackUnderflow and changes nothing but        *)
(* last_error; sp never goes below 0, and a RET that succeeds jumps to     *)
(* the return_addr of a frame above frame 0.                               *)
(***************************************************************************)
C8_RetStep ==
    (StepCalled /\ AtOpcode(vm, OP_RET)) =>
        /\ vm.sp = 0 =>
             /\ step_status' = VM_ERR_STACK_UNDERFLOW
             /\ vm' = [vm EXCEPT !.last_error = VM_ERR_STACK_UNDERFLOW]
        /\ step_status' = VM_OK =>
             /\ vm.sp > 0
             /\ vm'.pc = Frame(vm, vm.sp).return_addr
             /\ vm'.sp = vm.sp - 1
        /\ vm'.sp >= 0

C8_Underflow == [][C8_RetStep]_vars

\* RET has just been refused in the entry frame
C8_Witness ==
    /\ vm.sp = 0 /\ AtOpcode(vm, OP_RET)
    /\ step_status = VM_ERR_STACK_UNDERFLOW /\ vm.last_error = VM_ERR_STACK_UNDERFLOW



(***************************************************************************)
(* C1: failure atomicity.  Whenever vm_step returns a status other than    *)
(* OK (a decode error, a handler error or HALT), pc, sp, flags, program,   *)
(* program_len, every global, every buffer and every frame are exactly as  *)
(* before the call; only last_error may differ.                            *)
(***************************************************************************)
C1_FailedStep ==
    (StepCalled /\ step_status' # VM_OK) =>
        vm' = [vm EXCEPT !.last_error = step_status']

C1_FailureAtomicity == [][C1_FailedStep]_vars

\* DIV_U32 has just refused to divide 5 by 0 with the prelude's slots,
\* flags, global, local and buffer in place
C1_Witness ==
    /\ last_call = "vm_run" /\ step_status = VM_ERR_DIV_BY_ZERO
    /\ vm.pc = TestPc /\ AtOpcode(vm, OP_DIV_U32)
    /\ get_stack_var(vm, 2) = MkVal(V_U32, N(5))
    /\ vm.flags = FLAG_GREATER
    /\ Global(vm, 1) = MkVal(V_I32, N(7))
    /\ FrameLocal(vm, 0, 1) = MkVal(V_U32, N(5))
    /\ Membuf(vm, 1).type = MB_U8

(***************************************************************************)
(* C6: after every vm_step call and every vm_load_program call,            *)
(* last_error equals the status the call returned: on OK, on HALT and on   *)
(* every error path, the decoder's early returns included.                 *)
(***************************************************************************)
C6_LastErrorMirrors ==
    /\ last_call \in {"vm_step", "vm_run"} => vm.last_error = step_status
    /\ last_call = "vm_load_program" => vm.last_error = ret

\* The caller loaded a program whose payload runs past its end, was refused
\* a second, oversized one (no later program has 8 bytes), and the decoder
\* has then refused the instruction: last_error went from ProgramTooLarge
\* to InvalidInstruction
C6_Witness ==
    /\ loads = 2
    /\ last_call = "vm_run" /\ step_status = VM_ERR_INVALID_INSTRUCTION
    /\ vm.last_error = VM_ERR_INVALID_INSTRUCTION
    /\ vm.pc = 0 /\ vm.program_len = 8
    /\ INSTR_PAYLOAD_LEN(ProgWord(vm, 0)) = 2

(***************************************************************************)
(* C9: every successful CALL executed at address PC stores the address of  *)
(* the instruction after it, PC + 4 + 4 * payload_len, as return_addr of   *)
(* frame sp + 1 (sp before the call), which is PC + 8 for the encoding     *)
(* with one payload word; a successful RET resumes at the return_addr of   *)
(* the frame it leaves.                                                    *)
(***************************************************************************)
C9_CallStep ==
    /\ (StepCalled /\ AtOpcode(vm, OP_CALL) /\ step_status' = VM_OK) =>
         /\ Frame(vm', vm.sp + 1).return_addr =
              vm.pc + 4 + 4 * INSTR_PAYLOAD_LEN(ProgWord(vm, vm.pc))
         /\ INSTR_PAYLOAD_LEN(ProgWord(vm, vm.pc)) = 1 =>
              Frame(vm', vm.sp + 1).return_addr = vm.pc + 8
    /\ (StepCalled /\ AtOpcode(vm, OP_RET) /\ step_status' = VM_OK) =>
         vm'.pc = Frame(vm, vm.sp).return_addr

C9_ReturnAddress == [][C9_CallStep]_vars

\* The RET matching a CALL at address 4 with three payload words has
\* resumed at address 20
C9_Witness ==
    /\ vm.pc = 20 /\ vm.sp = 0 /\ Frame(vm, 1).return_addr = 20
    /\ ProgByte(vm, 4) = OP_CALL /\ INSTR_PAYLOAD_LEN(ProgWord(vm, 4)) = 3
    /\ step_status = VM_OK /\ last_call = "vm_run"

\* C9 as the specification words it: PC + 8 whatever the encoding
C9_PlusEightStep ==
    (StepCalled /\ AtOpcode(vm, OP_CALL) /\ step_status' = VM_OK) =>
        Frame(vm', vm.sp + 1).return_addr = vm.pc + 8

C9_AlwaysPlusEight == [][C9_PlusEightStep]_vars

(***************************************************************************)
(* C10: a successful CALL sets all 64 locals of the new frame sp + 1 to    *)
(* Void with zero payload and changes nothing else in any frame except    *)
(* that frame's return_addr: the new frame's 16 stack_vars and its ret_val *)
(* are preserved, as are all other frames, the globals, the buffers and    *)
(* the flags.                                                              *)
(***************************************************************************)
C10_CallStep ==
    (StepCalled /\ AtOpcode(vm, OP_CALL) /\ step_status' = VM_OK) =>
        /\ \A i \in 0 .. (STACK_LOCALS_COUNT - 1) :
             FrameLocal(vm', vm.sp + 1, i) = VoidVal
        /\ \A i \in 0 .. (STACK_VAR_COUNT - 1) :
             FrameVar(vm', vm.sp + 1, i) = FrameVar(vm, vm.sp + 1, i)
        /\ Frame(vm', vm.sp + 1).ret_val = Frame(vm, vm.sp + 1).ret_val
        /\ \A f \in (0 .. (STACK_DEPTH - 1)) \ {vm.sp + 1} :
             Frame(vm', f) = Frame(vm, f)
        /\ vm'.g_vars = vm.g_vars
        /\ vm'.g_membuf = vm.g_membuf
        /\ vm'.flags = vm.flags

C10_CallFrameEffect == [][C10_CallStep]_vars

\* The second CALL of P_CallTwice has just entered the subroutine: local 5
\* of frame 1, stored by the first activation, is Void again, while the
\* pre-staged slot 3 and ret_val of frame 1, the flags, global 2 and
\* buffer 1 are as the caller left them
C10_Witness ==
    /\ vm.sp = 1 /\ step_status = VM_OK /\ last_call = "vm_run"
    /\ vm.pc = Len(CallTwiceHead(0))
    /\ Frame(vm, 1).return_addr = Len(CallTwiceHead(0)) - 4
    /\ Frame(vm, 1).locals = EmptyMap
    /\ FrameVar(vm, 1, 3) = MkVal(V_I32, N(7))
    /\ Frame(vm, 1).ret_val = MkVal(V_I32, N(7))
    /\ vm.flags = FLAG_ZERO
    /\ Global(vm, 2) = MkVal(V_I32, N(7))
    /\ Membuf(vm, 1).type = MB_U8

\* The engine holds exactly the bytes of program p
Loaded(p) ==
    /\ vm.program_len = p.len
    /\ \A i \in 0 .. (Len(p.code) - 1) : ProgByte(vm, i) = p.code[i + 1]

\* vm_run has returned
RunReturned == last_call = "vm_run" /\ ~running

\* What main has written when it calls vm_run
MainLines == LoadedLine(vm.program_len) \o ExecutingLine

\* Under main, a call of vm_step appends b to the output: the first call
\* of a run comes after main's "Executing..."
MainStepWrote(b) == out' = out \o (IF running THEN <<>> ELSE ExecutingLine) \o b

(***************************************************************************)
(* C11: the function-call protocol.  For I32 arguments a and b, when       *)
(* vm_run has returned from the program that stages a and b into slots 0   *)
(* and 1 of frame 1, calls ADD_I32 s2,s0,s1; STORE_RET s2, 1; RET and      *)
(* then does LOAD_RET s0, 1; PRINT_I32 s0; PRINTLN; HALT, it has returned  *)
(* OK with sp = 0, the caller's s0 is I32(a + b) as read back from the     *)
(* ret_val of the inactive frame 1, and the program has written the        *)
(* decimal text of a + b followed by a newline ("8\n" for 5 and 3) after   *)
(* the two lines main writes before the run.                               *)
(***************************************************************************)
C11_CallProtocol ==
    \A x \in AddArgs :
        (Loaded(P_AddCall(x.a, x.b)) /\ RunReturned) =>
            /\ ret = VM_OK /\ step_status = VM_ERR_HALT
            /\ vm.sp = 0 /\ vm.pc = 60
            /\ FrameVar(vm, 0, 0) = MkVal(V_I32, x.sum)
            /\ Frame(vm, 1).ret_val = MkVal(V_I32, x.sum)
            /\ out = MainLines \o x.text

\* vm_run has returned from add(5, 3) with "8\n" printed
C11_Witness ==
    /\ Loaded(P_AddCall(<<5, 0, 0, 0>>, <<3, 0, 0, 0>>)) /\ RunReturned
    /\ ret = VM_OK /\ vm.sp = 0 /\ out = MainLines \o <<56, 10>>
    /\ FrameVar(vm, 0, 0) = MkVal(V_I32, <<8, 0, 0, 0>>)

\* What vm_step's decoder sees at pc: fewer than four bytes left for the
\* header, and the payload_len nibble of a header that is there
NoHeaderAt(v) == v.pc >= v.program_len \/ v.program_len - v.pc < 4
PayloadLenAt(v) == INSTR_PAYLOAD_LEN(ProgWord(v, v.pc))

(***************************************************************************)
(* C12: the decoder's statuses.  vm_step returns InvalidPc when pc >=      *)
(* program_len or fewer than four bytes are left for the header; with a    *)
(* whole header it returns InvalidInstruction when the payload_len nibble  *)
(* is greater than 3 or when the extent pc + 4 + 4 * payload_len exceeds   *)
(* program_len (a truncated payload).  Both rejections happen before       *)
(* dispatch: nothing but last_error changes and nothing is printed.        *)
(***************************************************************************)
C12_DecodeStep ==
    StepCalled =>
        /\ NoHeaderAt(vm) =>
             /\ step_status' = VM_ERR_INVALID_PC
             /\ vm' = [vm EXCEPT !.last_error = VM_ERR_INVALID_PC]
             /\ MainStepWrote(<<>>)
        /\ (~NoHeaderAt(vm)
            /\ (PayloadLenAt(vm) > 3
                \/ vm.pc + 4 + 4 * PayloadLenAt(vm) > vm.program_len)) =>
             /\ step_status' = VM_ERR_INVALID_INSTRUCTION
             /\ vm' = [vm EXCEPT !.last_error = VM_ERR_INVALID_INSTRUCTION]
             /\ MainStepWrote(<<>>)

C12_DecoderStatuses == [][C12_DecodeStep]_vars

\* The ADD_I32 at address 4 of P_CutTail, whose second payload word is
\* missing, has been refused as an invalid instruction
C12_Witness ==
    /\ Loaded(P_CutTail) /\ RunReturned
    /\ vm.pc = 4 /\ PayloadLenAt(vm) = 2 /\ vm.program_len = 12
    /\ step_status = VM_ERR_INVALID_INSTRUCTION
    /\ ret = VM_ERR_INVALID_INSTRUCTION

\* C12 as the specification words it: InvalidInstruction for a nibble
\* above 3, InvalidPc whenever the extent exceeds program_len
C12_ExtentStep ==
    StepCalled =>
        /\ (~NoHeaderAt(vm) /\ PayloadLenAt(vm) > 3
            /\ vm.pc + 4 + 4 * PayloadLenAt(vm) <= vm.program_len) =>
             step_status' = VM_ERR_INVALID_INSTRUCTION
        /\ (NoHeaderAt(vm)
            \/ (PayloadLenAt(vm) <= 3
                /\ vm.pc + 4 + 4 * PayloadLenAt(vm) > vm.program_len)) =>
             step_status' = VM_ERR_INVALID_PC

C12_ExtentIsInvalidPc == [][C12_ExtentStep]_vars

(***************************************************************************)
(* C13: an opcode byte without a handler (0xA9..0xFF and every reserved    *)
(* gap below) in a well-formed, in-bounds instruction makes vm_step return *)
(* InvalidOpcode with no state changed but last_error and nothing          *)
(* printed, and a vm_run that made the call stops and returns that status. *)
(***************************************************************************)
C13_UnassignedStep ==
    (StepCalled /\ \E op \in UnassignedOpcodes : AtOpcode(vm, op)) =>
        /\ step_status' = VM_ERR_INVALID_OPCODE
        /\ vm' = [vm EXCEPT !.last_error = VM_ERR_INVALID_OPCODE]
        /\ MainStepWrote(<<>>)
        /\ last_call' = "vm_run" => ~running' /\ ret' = VM_ERR_INVALID_OPCODE

C13_InvalidOpcode == [][C13_UnassignedStep]_vars

\* vm_run has stopped at opcode byte 0xA9, after the load of s0 before it
C13_Witness ==
    /\ Loaded(P_Unassigned(169)) /\ RunReturned
    /\ vm.pc = 8 /\ AtOpcode(vm, 169)
    /\ FrameVar(vm, 0, 0) = MkVal(V_I32, <<7, 0, 0, 0>>)
    /\ vm.last_error = VM_ERR_INVALID_OPCODE /\ ret = VM_ERR_INVALID_OPCODE

(***************************************************************************)
(* C14: vm_load_program accepts every length up to and including 65,536:   *)
(* it returns OK, sets program_len to the length, pc to 0 and last_error   *)
(* to OK, and the program memory holds the bytes given.  A length of       *)
(* 65,537 or more returns ProgramTooLarge and leaves the program bytes,    *)
(* program_len and pc as they were.                                        *)
(***************************************************************************)
C14_LoadStep ==
    \A p \in ApiPrograms :
        Load(p) =>
            /\ p.len <= 65536 =>
                 /\ ret' = VM_OK
                 /\ vm'.program_len = p.len /\ vm'.pc = 0
                 /\ vm'.last_error = VM_OK
                 /\ \A i \in 0 .. (Len(p.code) - 1) :
                      ProgByte(vm', i) = p.code[i + 1]
            /\ p.len >= 65537 =>
                 /\ ret' = VM_ERR_PROGRAM_TOO_LARGE
                 /\ vm'.program = vm.program
                 /\ vm'.program_len = vm.program_len
                 /\ vm'.pc = vm.pc

C14_LoadLimit == [][C14_LoadStep]_vars

\* A program of exactly 65,536 bytes was accepted, and the load of 65,537
\* bytes that followed was refused and left it in place
C14_Witness ==
    /\ last_call = "vm_load_program" /\ loads = 2
    /\ ret = VM_ERR_PROGRAM_TOO_LARGE
    /\ vm.program_len = 65536 /\ ProgByte(vm, 0) = OP_HALT

(***************************************************************************)
(* C15: after vm_init or vm_reset, whatever the state before: every        *)
(* global, every buffer, and every stack_var, local and ret_val of all 32  *)
(* frames has tag Void; sp = 0, pc = 0, flags = 0 and last_error = OK.     *)
(***************************************************************************)
C15_CleanAfterReset ==
    last_call \in {"vm_init", "vm_reset"} =>
        /\ \A i \in 0 .. (G_VARS_COUNT - 1) : Global(vm, i).type = V_VOID
        /\ \A i \in 0 .. (G_MEMBUF_COUNT - 1) : Membuf(vm, i).type = MB_VOID
        /\ \A f \in 0 .. (STACK_DEPTH - 1) :
             /\ \A i \in 0 .. (STACK_VAR_COUNT - 1) :
                  FrameVar(vm, f, i).type = V_VOID
             /\ \A i \in 0 .. (STACK_LOCALS_COUNT - 1) :
                  FrameLocal(vm, f, i).type = V_VOID
             /\ Frame(vm, f).ret_val.type = V_VOID
        /\ vm.sp = 0 /\ vm.pc = 0 /\ vm.flags = 0 /\ vm.last_error = VM_OK

\* vm_reset has acted after P_Dirty had run up to its PRINT_I32
C15_Witness ==
    /\ last_call = "vm_reset" /\ loads >= 1 /\ out = <<55>>
    /\ vm.sp = 0 /\ vm.pc = 0 /\ vm.flags = 0 /\ vm.last_error = VM_OK
    /\ Global(vm, 2).type = V_VOID /\ Membuf(vm, 1).type = MB_VOID
    /\ FrameVar(vm, 3, 2).type = V_VOID /\ Frame(vm, 4).ret_val.type = V_VOID

\* The second payload word of the instruction at pc, as the decoder reads it
Imm2At(v) ==
    IF INSTR_PAYLOAD_LEN(ProgWord(v, v.pc)) >= 2 THEN ProgWord(v, v.pc + 8) ELSE Zero32

\* The opcode, operand byte and source slots of the instruction at pc
OpcodeAt(v) == ProgByte(v, v.pc)
OperandAt(v) == ProgByte(v, v.pc + 1)
Src1At(v) == get_stack_var(v, Slot(Imm1At(v)))
Src2At(v) == get_stack_var(v, Slot(Imm2At(v)))

\* The tag discipline as the instruction set states it: the opcodes by the
\* tag their sources must carry, those that read a second source, those
\* that write a destination slot, and the tag the destination gets
NeedI32 ==
    {OP_ADD_I32, OP_SUB_I32, OP_MUL_I32, OP_DIV_I32, OP_MOD_I32, OP_NEG_I32,
     OP_CMP_I32, OP_I32_TO_U32, OP_I32_TO_F32, OP_PRINT_I32}
NeedU32 ==
    {OP_ADD_U32, OP_SUB_U32, OP_MUL_U32, OP_DIV_U32, OP_MOD_U32,
     OP_AND_U32, OP_OR_U32, OP_XOR_U32, OP_NOT_U32, OP_SHL_U32, OP_SHR_U32,
     OP_CMP_U32, OP_U32_TO_I32, OP_U32_TO_F32, OP_PRINT_U32}
NeedF32 ==
    {OP_ADD_F32, OP_SUB_F32, OP_MUL_F32, OP_DIV_F32, OP_NEG_F32, OP_ABS_F32,
     OP_SQRT_F32, OP_CMP_F32, OP_F32_TO_I32, OP_F32_TO_U32, OP_PRINT_F32}
TaggedOpcodes == NeedI32 \cup NeedU32 \cup NeedF32
OneSource ==
    {OP_NEG_I32, OP_NEG_F32, OP_ABS_F32, OP_SQRT_F32, OP_NOT_U32,
     OP_I32_TO_U32, OP_U32_TO_I32, OP_I32_TO_F32, OP_U32_TO_F32,
     OP_F32_TO_I32, OP_F32_TO_U32, OP_PRINT_I32, OP_PRINT_U32, OP_PRINT_F32}
NoDest ==
    {OP_CMP_I32, OP_CMP_U32, OP_CMP_F32, OP_PRINT_I32, OP_PRINT_U32, OP_PRINT_F32}
SourceTag(op) ==
    IF op \in NeedI32 THEN V_I32 ELSE IF op \in NeedU32 THEN V_U32 ELSE V_FLOAT
ResultTag(op) ==
    CASE op \in {OP_U32_TO_I32, OP_F32_TO_I32} -> V_I32
      [] op \in {OP_I32_TO_U32, OP_F32_TO_U32} -> V_U32
      [] op \in {OP_I32_TO_F32, OP_U32_TO_F32} -> V_FLOAT
      [] OTHER -> SourceTag(op)

\* Every slot index the instruction at pc names is one of the 16 slots
SlotsValid(v) ==
    /\ OpcodeAt(v) \notin NoDest => OperandAt(v) < 16
    /\ Slot(Imm1At(v)) < 16
    /\ OpcodeAt(v) \notin OneSource => Slot(Imm2At(v)) < 16

\* A source of the instruction at pc does not carry the tag it must
SourceMismatch(v) ==
    \/ Src1At(v).type # SourceTag(OpcodeAt(v))
    \/ OpcodeAt(v) \notin OneSource /\ Src2At(v).type # SourceTag(OpcodeAt(v))

(***************************************************************************)
(* C16: tag discipline.  An arithmetic, bitwise, comparison, conversion    *)
(* or PRINT instruction whose slot indices are valid returns TypeMismatch  *)
(* when a source slot's tag is not exactly the tag the opcode requires     *)
(* (the bitwise opcodes accept only U32), and when it succeeds the         *)
(* destination slot carries the opcode's result tag.                       *)
(***************************************************************************)
C16_TagStep ==
    (StepCalled /\ AtOpcode(vm, OpcodeAt(vm)) /\ OpcodeAt(vm) \in TaggedOpcodes
     /\ SlotsValid(vm) /\ Alive') =>
        /\ SourceMismatch(vm) => step_status' = VM_ERR_TYPE_MISMATCH
        /\ (step_status' = VM_OK /\ OpcodeAt(vm) \notin NoDest) =>
             FrameVar(vm', vm.sp, OperandAt(vm)).type = ResultTag(OpcodeAt(vm))
        /\ step_status' = VM_OK => ~SourceMismatch(vm)

C16_TagDiscipline == [][C16_TagStep]_vars

\* AND_U32 has been refused for its I32 sources s0 and s1
C16_Witness ==
    /\ RunReturned /\ vm.pc = TestPc /\ AtOpcode(vm, OP_AND_U32)
    /\ Src1At(vm) = MkVal(V_I32, <<7, 0, 0, 0>>) /\ Src2At(vm).type = V_I32
    /\ OperandAt(vm) = 6
    /\ step_status = VM_ERR_TYPE_MISMATCH /\ ret = VM_ERR_TYPE_MISMATCH

\* Both sources of a two-source instruction at pc carry the tag it requires
SourcesTagged(v) ==
    /\ Src1At(v).type = SourceTag(OpcodeAt(v))
    /\ Src2At(v).type = SourceTag(OpcodeAt(v))

(***************************************************************************)
(* C17: DIV_I32, MOD_I32, DIV_U32 and MOD_U32 with correctly tagged        *)
(* sources and a zero divisor return DivByZero and leave the destination   *)
(* slot (tag and value), the sources and pc unchanged, also when the       *)
(* destination is the slot of one of the sources.                          *)
(***************************************************************************)
C17_ZeroDivisorStep ==
    (StepCalled
     /\ \E op \in {OP_DIV_I32, OP_MOD_I32, OP_DIV_U32, OP_MOD_U32} :
            AtOpcode(vm, op)
     /\ SlotsValid(vm) /\ SourcesTagged(vm)
     /\ Src2At(vm).val = <<0, 0, 0, 0>>) =>
        /\ step_status' = VM_ERR_DIV_BY_ZERO
        /\ FrameVar(vm', vm.sp, OperandAt(vm)) = FrameVar(vm, vm.sp, OperandAt(vm))
        /\ Src1At(vm') = Src1At(vm) /\ Src2At(vm') = Src2At(vm)
        /\ vm'.sp = vm.sp /\ vm'.pc = vm.pc

C17_DivByZero == [][C17_ZeroDivisorStep]_vars

\* MOD_U32 s3, s2, s3 with s3 = U32 0 has been refused: the destination is
\* the divisor's slot and still holds U32 0
C17_Witness ==
    /\ RunReturned /\ vm.pc = TestPc /\ AtOpcode(vm, OP_MOD_U32)
    /\ OperandAt(vm) = 3 /\ Slot(Imm1At(vm)) = 2 /\ Slot(Imm2At(vm)) = 3
    /\ FrameVar(vm, 0, 3) = MkVal(V_U32, <<0, 0, 0, 0>>)
    /\ FrameVar(vm, 0, 2) = MkVal(V_U32, <<5, 0, 0, 0>>)
    /\ step_status = VM_ERR_DIV_BY_ZERO /\ ret = VM_ERR_DIV_BY_ZERO

\* Bit i (0 = least significant) of a word, read off its bytes
BitOf(w, i) == (w[(i \div 8) + 1] \div (2 ^ (i % 8))) % 2

\* A shift count of 32 or more, as a uint32
CountTooBig(w) == w[1] >= 32 \/ w[2] > 0 \/ w[3] > 0 \/ w[4] > 0

\* d is a shifted left, and a shifted right with zero fill, by k < 32 bits
IsShl(d, a, k) ==
    \A i \in 0 .. 31 : BitOf(d, i) = IF i >= k THEN BitOf(a, i - k) ELSE 0
IsShr(d, a, k) ==
    \A i \in 0 .. 31 : BitOf(d, i) = IF i + k <= 31 THEN BitOf(a, i + k) ELSE 0

(***************************************************************************)
(* C18: SHL_U32 and SHR_U32 on U32 sources.  A shift count >= 32 returns   *)
(* Bounds and leaves the destination unchanged; a count k in 0..31         *)
(* succeeds and the destination is U32 (a * 2^k mod 2^32) for SHL (bit i   *)
(* of the result is bit i - k of a, the low k bits are 0) and              *)
(* U32 floor(a / 2^k) for SHR (bit i of the result is bit i + k of a, the  *)
(* high k bits are 0: never the sign bit).                                 *)
(***************************************************************************)
C18_ShiftStep ==
    (StepCalled /\ (AtOpcode(vm, OP_SHL_U32) \/ AtOpcode(vm, OP_SHR_U32))
     /\ SlotsValid(vm) /\ SourcesTagged(vm)) =>
        IF CountTooBig(Src2At(vm).val)
        THEN /\ step_status' = VM_ERR_BOUNDS
             /\ FrameVar(vm', vm.sp, OperandAt(vm))
                  = FrameVar(vm, vm.sp, OperandAt(vm))
        ELSE /\ step_status' = VM_OK
             /\ FrameVar(vm', vm.sp, OperandAt(vm)).type = V_U32
             /\ OpcodeAt(vm) = OP_SHL_U32 =>
                  IsShl(FrameVar(vm', vm.sp, OperandAt(vm)).val,
                        Src1At(vm).val, Src2At(vm).val[1])
             /\ OpcodeAt(vm) = OP_SHR_U32 =>
                  IsShr(FrameVar(vm', vm.sp, OperandAt(vm)).val,
                        Src1At(vm).val, Src2At(vm).val[1])

C18_Shifts == [][C18_ShiftStep]_vars

\* SHR_U32 of 0xC0000005 by 4 has stored U32 0x0C000000 over the I32 7 of
\* the destination
C18_Witness ==
    /\ Loaded(P_Shift(OP_SHR_U32, <<5, 0, 0, 192>>, <<4, 0, 0, 0>>))
    /\ RunReturned /\ ret = VM_OK
    /\ FrameVar(vm, 0, 2) = MkVal(V_U32, <<0, 0, 0, 12>>)

\* The transition is a vm_step call, whether it returned or the process
\* died in it
StepEntered == last_call' \in {"vm_step", "vm_run", "SIGFPE"}

(***************************************************************************)
(* C19: signed arithmetic never fails except by DivByZero.  ADD_I32,       *)
(* SUB_I32, MUL_I32 and NEG_I32 on I32 sources return OK with the          *)
(* two's-complement wrapped result, and DIV_I32 and MOD_I32 return OK      *)
(* with an I32 result for every non-zero divisor, INT32_MIN divided by -1  *)
(* included: the call returns, its status is OK and the destination is     *)
(* tagged I32.                                                             *)
(***************************************************************************)
C19_SignedStep ==
    (StepEntered
     /\ \E op \in OP_ADD_I32 .. OP_NEG_I32 : AtOpcode(vm, op)
     /\ SlotsValid(vm) /\ Src1At(vm).type = V_I32
     /\ (OpcodeAt(vm) # OP_NEG_I32 => Src2At(vm).type = V_I32)
     /\ (OpcodeAt(vm) \in {OP_DIV_I32, OP_MOD_I32} =>
            Src2At(vm).val # <<0, 0, 0, 0>>)) =>
        /\ last_call' # "SIGFPE"
        /\ step_status' = VM_OK
        /\ FrameVar(vm', vm.sp, OperandAt(vm)).type = V_I32
        /\ OpcodeAt(vm) = OP_ADD_I32 =>
             SubW(FrameVar(vm', vm.sp, OperandAt(vm)).val, Src2At(vm).val)
               = Src1At(vm).val
        /\ OpcodeAt(vm) = OP_NEG_I32 =>
             AddW(FrameVar(vm', vm.sp, OperandAt(vm)).val, Src1At(vm).val)
               = <<0, 0, 0, 0>>

C19_SignedNeverFails == [][C19_SignedStep]_vars

\* The process has died in DIV_I32 s6, s9, s10 with s9 = INT32_MIN and
\* s10 = -1
C19_Witness ==
    /\ last_call = "SIGFPE" /\ vm.pc = TestPc /\ AtOpcode(vm, OP_DIV_I32)
    /\ Src1At(vm) = MkVal(V_I32, <<0, 0, 0, 128>>)
    /\ Src2At(vm) = MkVal(V_I32, <<255, 255, 255, 255>>)

\* The instruction at pc is a float arithmetic instruction whose slots are
\* valid and whose sources are tagged F32
FloatArithAt(v) ==
    /\ \E op \in OP_ADD_F32 .. OP_SQRT_F32 : AtOpcode(v, op)
    /\ SlotsValid(v) /\ Src1At(v).type = V_FLOAT
    /\ OpcodeAt(v) \notin OneSource => Src2At(v).type = V_FLOAT

\* The address after the instruction at pc
NextPcAt(v) == v.pc + 4 + 4 * PayloadLenAt(v)

(***************************************************************************)
(* C20: float arithmetic returns no error for any operand value (NaN,      *)
(* infinity, a negative square-root input): ADD_F32, SUB_F32, MUL_F32,     *)
(* NEG_F32, ABS_F32 and SQRT_F32 on F32 sources always return OK, write an *)
(* F32-tagged destination and advance pc, and so does DIV_F32 unless its   *)
(* divisor is +0.0 or -0.0, which returns DivByZero and leaves the         *)
(* destination and pc unchanged.                                           *)
(***************************************************************************)
C20_FloatStep ==
    (StepCalled /\ FloatArithAt(vm)) =>
        IF OpcodeAt(vm) = OP_DIV_F32
           /\ Src2At(vm).val \in {<<0, 0, 0, 0>>, <<0, 0, 0, 128>>}
        THEN /\ step_status' = VM_ERR_DIV_BY_ZERO
             /\ FrameVar(vm', vm.sp, OperandAt(vm))
                  = FrameVar(vm, vm.sp, OperandAt(vm))
             /\ vm'.pc = vm.pc
        ELSE /\ step_status' = VM_OK
             /\ FrameVar(vm', vm.sp, OperandAt(vm)).type = V_FLOAT
             /\ vm'.pc = NextPcAt(vm)

C20_FloatStatuses == [][C20_FloatStep]_vars

\* DIV_F32 of 2.0 by -0.0 has been refused; the destination s2 is still
\* Void
C20_Witness ==
    /\ Loaded(P_Float(OP_DIV_F32, <<0, 0, 0, 64>>, <<0, 0, 0, 128>>))
    /\ RunReturned /\ vm.pc = 16
    /\ step_status = VM_ERR_DIV_BY_ZERO /\ ret = VM_ERR_DIV_BY_ZERO
    /\ FrameVar(vm, 0, 2) = VoidVal

\* C20 as the specification words it: no float arithmetic instruction
\* returns an error, a zero divisor included
C20_NoErrorStep ==
    (StepCalled /\ FloatArithAt(vm)) =>
        /\ step_status' = VM_OK
        /\ FrameVar(vm', vm.sp, OperandAt(vm)).type = V_FLOAT
        /\ vm'.pc = NextPcAt(vm)

C20_FloatNeverFails == [][C20_NoErrorStep]_vars
\* The flags byte holds exactly one of Z, L, G
OneFlag(f) == f \in {FLAG_ZERO, FLAG_LESS, FLAG_GREATER}

\* The flag a comparison of ranks leaves
RankFlag(a, b) ==
    IF a = b THEN FLAG_ZERO ELSE IF a < b THEN FLAG_LESS ELSE FLAG_GREATER

(***************************************************************************)
(* C21: CMP_I32 and CMP_U32 on correctly tagged sources overwrite the      *)
(* flags with exactly one bit: Z iff src1 = src2, L iff src1 < src2, G iff *)
(* src1 > src2, in signed order for CMP_I32 and in unsigned order for      *)
(* CMP_U32 (0xFFFFFFFF is below 0 as I32 and above 0 as U32); whatever an  *)
(* earlier comparison left in the flags is gone.                           *)
(***************************************************************************)
C21_CmpStep ==
    \A op \in {OP_CMP_I32, OP_CMP_U32} :
        (StepCalled /\ AtOpcode(vm, op)
         /\ Slot(Imm1At(vm)) < 16 /\ Slot(Imm2At(vm)) < 16
         /\ Src1At(vm).type = CmpTag(op) /\ Src2At(vm).type = CmpTag(op)) =>
            /\ step_status' = VM_OK
            /\ OneFlag(vm'.flags)
            /\ (vm'.flags = FLAG_ZERO) = (Src1At(vm).val = Src2At(vm).val)
            /\ \A x, y \in CmpArgs :
                 (Src1At(vm).val = x.w /\ Src2At(vm).val = y.w) =>
                    vm'.flags = IF op = OP_CMP_I32 THEN RankFlag(x.i32, y.i32)
                                ELSE RankFlag(x.u32, y.u32)

C21_CmpFlags == [][C21_CmpStep]_vars

\* CMP_I32 of -1 and 0 has left L alone where the earlier comparison of 0
\* and -1 had left G
C21_Witness ==
    /\ Loaded(P_Cmp(OP_CMP_I32, <<255, 255, 255, 255>>, <<0, 0, 0, 0>>))
    /\ vm.pc = 40 /\ vm.flags = FLAG_LESS /\ step_status = VM_OK

\* A flags byte within the three bits, L and G not both set
FlagsSane(f) == f \in 0 .. 7 /\ ~((f \div FLAG_LESS) % 2 = 1 /\ (f \div FLAG_GREATER) % 2 = 1)

\* The opcodes that write the flags
FlagSetters == {OP_CMP_I32, OP_CMP_U32, OP_CMP_F32, OP_STR_CMP}

\* A vm_step call that returns OK from CMP_I32, CMP_U32 or STR_CMP leaves
\* exactly one flag; a call that executes any other opcode than a
\* comparison, or that fails, leaves the flags as they were
C22_FlagStep ==
    StepCalled =>
        /\ (step_status' = VM_OK
            /\ \E op \in {OP_CMP_I32, OP_CMP_U32, OP_STR_CMP} : AtOpcode(vm, op)) =>
               OneFlag(vm'.flags)
        /\ (step_status' # VM_OK \/ \A op \in FlagSetters : ~AtOpcode(vm, op)) =>
               vm'.flags = vm.flags

(***************************************************************************)
(* C22: in every reachable state the flags byte uses only the bits Z, L    *)
(* and G and never has L and G together; and since only a successful       *)
(* comparison writes the flags, and CMP_I32, CMP_U32 and STR_CMP write     *)
(* exactly one of Z, L, G, exactly one flag is set whenever the most       *)
(* recent flag-setting instruction was one of these three.                 *)
(***************************************************************************)
C22_FlagsExclusive == [](FlagsSane(vm.flags)) /\ [][C22_FlagStep]_vars

\* STR_CMP has just compared buffer 1 with itself and left Z where the
\* prelude's CMP_I32 had left G
C22_Witness ==
    /\ RunReturned /\ vm.pc = TestPc + 16 /\ vm.flags = FLAG_ZERO
    /\ \E p \in TestPrograms :
         /\ Loaded(p)
         /\ p.code[TestPc + 1] = OP_STR_CMP
         /\ SubSeq(p.code, TestPc + 5, TestPc + 12) = N(1) \o N(1)

\* The condition under which the jump opcode op is taken with flags f
JumpCond(op, f) ==
    LET Z == (f \div FLAG_ZERO) % 2 = 1
        L == (f \div FLAG_LESS) % 2 = 1
        G == (f \div FLAG_GREATER) % 2 = 1
    IN  CASE op = OP_JMP -> TRUE
          [] op = OP_JZ -> Z
          [] op = OP_JNZ -> ~Z
          [] op = OP_JLT -> L
          [] op = OP_JGT -> G
          [] op = OP_JLE -> L \/ Z
          [] op = OP_JGE -> G \/ Z

(***************************************************************************)
(* C23: jumps.  JMP always, and JZ, JNZ, JLT, JGT, JLE, JGE iff Z, not Z,  *)
(* L, G, (L or Z), (G or Z), go to their target: pc = target when          *)
(* target < program_len, and otherwise the status is InvalidPc and pc      *)
(* stays.  A conditional jump whose condition fails sets pc to the next    *)
(* instruction whatever its target.  No jump changes the flags or          *)
(* anything but pc and last_error.  The example CMP_I32 of 5 and 3,        *)
(* JLT L1, ... therefore does not take the JLT and prints "5\n".           *)
(***************************************************************************)
C23_JumpStep ==
    \A op \in OP_JMP .. OP_JGE :
        (StepCalled /\ AtOpcode(vm, op)) =>
            LET target == Imm1At(vm)
                fits == FitsNat(target) /\ ToNat(target) < vm.program_len
                cond == JumpCond(op, vm.flags)
            IN  /\ (cond /\ fits) =>
                     /\ step_status' = VM_OK
                     /\ vm' = [vm EXCEPT !.pc = ToNat(target), !.last_error = VM_OK]
                /\ (cond /\ ~fits) =>
                     /\ step_status' = VM_ERR_INVALID_PC
                     /\ vm' = [vm EXCEPT !.last_error = VM_ERR_INVALID_PC]
                /\ ~cond =>
                     /\ step_status' = VM_OK
                     /\ vm' = [vm EXCEPT !.pc = NextPcAt(vm), !.last_error = VM_OK]
                /\ MainStepWrote(<<>>)

C23_Jumps ==
    [](Loaded(P_Branch) /\ RunReturned => ret = VM_OK /\ out = MainLines \o <<53, 10>>)
    /\ [][C23_JumpStep]_vars

\* The example has run: G was set, JLT fell through, "5\n" was printed
C23_Witness ==
    /\ Loaded(P_Branch) /\ RunReturned /\ vm.pc = 64
    /\ vm.flags = FLAG_GREATER /\ out = MainLines \o <<53, 10>>

\* Where the instruction set puts its indices: the opcodes whose operand
\* byte, first and second payload word name a stack-var slot, and those
\* whose first and second payload word name a buffer
OperandIsSlot ==
    (OP_LOAD_G .. OP_LOAD_RET) \cup (OP_STORE_G .. OP_STORE_RET)
    \cup (TaggedOpcodes \ NoDest)
    \cup {OP_BUF_READ, OP_BUF_WRITE, OP_BUF_LEN, OP_STR_LEN, OP_STR_CHR,
          OP_READ_I32, OP_READ_U32, OP_READ_F32}
Imm1IsBuffer ==
    (OP_BUF_READ .. OP_BUF_CLEAR) \cup (OP_STR_CAT .. OP_STR_SET_CHR)
    \cup {OP_PRINT_STR, OP_READ_STR}
Imm2IsBuffer == {OP_STR_CAT, OP_STR_CMP}

\* The instruction at pc names an index of the kind that is out of range
BadSlotAt(v) ==
    \/ OpcodeAt(v) \in OperandIsSlot /\ OperandAt(v) >= 16
    \/ OpcodeAt(v) \in TaggedOpcodes /\ Slot(Imm1At(v)) >= 16
    \/ OpcodeAt(v) \in TaggedOpcodes \ OneSource /\ Slot(Imm2At(v)) >= 16
BadGlobalAt(v) ==
    OpcodeAt(v) \in {OP_LOAD_G, OP_STORE_G} /\ U32GeNat(Imm1At(v), 256)
BadLocalAt(v) ==
    OpcodeAt(v) \in {OP_LOAD_L, OP_STORE_L} /\ U32GeNat(Imm1At(v), 64)
BadBufferAt(v) ==
    \/ OpcodeAt(v) \in Imm1IsBuffer /\ U32GeNat(Imm1At(v), 256)
    \/ OpcodeAt(v) \in Imm2IsBuffer /\ U32GeNat(Imm2At(v), 256)

\* The status that names the one kind of index that is out of range at pc,
\* NO_STATUS when none or more than one kind is
IndexStatus(v) ==
    CASE BadSlotAt(v) /\ ~BadGlobalAt(v) /\ ~BadLocalAt(v) /\ ~BadBufferAt(v) ->
            VM_ERR_INVALID_STACK_VAR_IDX
      [] ~BadSlotAt(v) /\ BadGlobalAt(v) -> VM_ERR_INVALID_GLOBAL_IDX
      [] ~BadSlotAt(v) /\ BadLocalAt(v) -> VM_ERR_INVALID_LOCAL_IDX
      [] ~BadSlotAt(v) /\ BadBufferAt(v) -> VM_ERR_INVALID_BUFFER_IDX
      [] OTHER -> NO_STATUS

(***************************************************************************)
(* C24: an instruction with one kind of index out of range returns the     *)
(* status that names that kind, whatever the opcode, and changes nothing   *)
(* but last_error: a stack-var slot >= 16 (the operand byte or the low     *)
(* byte of a payload word) gives InvalidStackVarIdx, a global index >= 256 *)
(* InvalidGlobalIdx, a local index >= 64 InvalidLocalIdx and a buffer      *)
(* index >= 256 InvalidBufferIdx.                                          *)
(***************************************************************************)
C24_IndexStep ==
    (StepCalled /\ AtOpcode(vm, OpcodeAt(vm)) /\ IndexStatus(vm) # NO_STATUS) =>
        /\ step_status' = IndexStatus(vm)
        /\ vm' = [vm EXCEPT !.last_error = IndexStatus(vm)]
        /\ MainStepWrote(<<>>)

C24_IndexStatuses == [][C24_IndexStep]_vars

\* LOAD_G s16, 0 has been refused with InvalidGlobalIdx: there is no slot
\* 16, and global 0 exists
C24_Witness ==
    /\ RunReturned /\ vm.pc = TestPc /\ AtOpcode(vm, OP_LOAD_G)
    /\ OperandAt(vm) = 16 /\ Imm1At(vm) = <<0, 0, 0, 0>>
    /\ step_status = VM_ERR_INVALID_GLOBAL_IDX /\ ret = VM_ERR_INVALID_GLOBAL_IDX

\* Elements a buffer of each tag holds: 256 U8, 128 U16, 64 I32, U32, F32
Capacity(type) ==
    CASE type = MB_U8 -> 256
      [] type = MB_U16 -> 128
      [] type \in {MB_I32, MB_U32, MB_FLOAT} -> 64
      [] OTHER -> 0

\* The buffer index and the position the BUF_READ or BUF_WRITE at pc names
BufIdxAt(v) == Imm1At(v)
BufPosAt(v) == Imm2At(v)
BufIdxFits(v) == FitsNat(BufIdxAt(v)) /\ ToNat(BufIdxAt(v)) < 256
BufAt(v) == Membuf(v, ToNat(BufIdxAt(v)))
BufPosFits(v) ==
    FitsNat(BufPosAt(v)) /\ ToNat(BufPosAt(v)) < Capacity(BufAt(v).type)

\* The source slot of the BUF_WRITE at pc carries a tag the element accepts
SourceAccepted(v) ==
    LET tag == FrameVar(v, v.sp, OperandAt(v)).type
        type == BufAt(v).type
    IN  \/ type \in {MB_U8, MB_U16} /\ tag \in {V_U32, V_I32}
        \/ type = MB_I32 /\ tag = V_I32
        \/ type = MB_U32 /\ tag = V_U32
        \/ type = MB_FLOAT /\ tag = V_FLOAT

(***************************************************************************)
(* C25: buffer bounds.  BUF_READ and BUF_WRITE with a valid slot succeed   *)
(* only when bi < 256, the buffer's tag is not Void and                    *)
(* pos < capacity(tag), capacity being 256/128/64/64/64 for                *)
(* U8/U16/I32/U32/F32.  Otherwise they return InvalidBufferIdx,            *)
(* TypeMismatch for a Void buffer, InvalidBufferPos for pos >= capacity    *)
(* (pos = capacity included), in that order, and no buffer and no slot     *)
(* changes.  Every pos < capacity, capacity - 1 included, succeeds for     *)
(* BUF_READ and for BUF_WRITE of an accepted source.                       *)
(***************************************************************************)
C25_BoundsStep ==
    (StepCalled /\ OperandAt(vm) < 16
     /\ (AtOpcode(vm, OP_BUF_READ) \/ AtOpcode(vm, OP_BUF_WRITE))) =>
        LET refused ==
              IF ~BufIdxFits(vm) THEN VM_ERR_INVALID_BUFFER_IDX
              ELSE IF BufAt(vm).type = MB_VOID THEN VM_ERR_TYPE_MISMATCH
              ELSE IF ~BufPosFits(vm) THEN VM_ERR_INVALID_BUFFER_POS
              ELSE VM_OK
        IN  /\ refused # VM_OK =>
                 /\ step_status' = refused
                 /\ vm' = [vm EXCEPT !.last_error = refused]
            /\ (refused = VM_OK
                /\ (AtOpcode(vm, OP_BUF_READ) \/ SourceAccepted(vm))) =>
                 step_status' = VM_OK
            /\ vm'.g_membuf # vm.g_membuf =>
                 /\ refused = VM_OK /\ step_status' = VM_OK
                 /\ AtOpcode(vm, OP_BUF_WRITE)

C25_BufferBounds == [][C25_BoundsStep]_vars

\* BUF_READ s1, b7, 128 has been refused with InvalidBufferPos: b7 is a
\* U16 buffer of 128 elements
C25_Witness ==
    /\ Loaded(P_BufRead(N(7), N(128))) /\ RunReturned
    /\ Membuf(vm, 7).type = MB_U16 /\ vm.pc = 0
    /\ ret = VM_ERR_INVALID_BUFFER_POS /\ FrameVar(vm, 0, 1) = VoidVal

\* BUF_READ s1, b7, 127 has read the last element of b7
C25_LastElement ==
    /\ Loaded(P_BufRead(N(7), N(127))) /\ RunReturned
    /\ Membuf(vm, 7).type = MB_U16 /\ ret = VM_OK
    /\ FrameVar(vm, 0, 1) = MkVal(V_U32, <<255, 1, 0, 0>>)

\* The element a buffer of the given tag keeps of a source word, widened
\* back to a word, and the tag BUF_READ gives it
Narrowed(type, w) ==
    CASE type = MB_U8 -> <<w[1], 0, 0, 0>>
      [] type = MB_U16 -> <<w[1], w[2], 0, 0>>
      [] OTHER -> w
ReadTag(type) ==
    CASE type = MB_I32 -> V_I32
      [] type = MB_FLOAT -> V_FLOAT
      [] OTHER -> V_U32
Width(type) ==
    CASE type = MB_U8 -> 1
      [] type = MB_U16 -> 2
      [] OTHER -> 4

\* A BUF_WRITE that passes the index, tag and position checks either is
\* refused for its source tag and changes nothing, or stores the narrowed
\* source in element pos of buffer bi and changes no other byte of any
\* buffer, no buffer's tag and no slot
C26_WriteStep ==
    (StepCalled /\ AtOpcode(vm, OP_BUF_WRITE) /\ OperandAt(vm) < 16
     /\ BufIdxFits(vm) /\ BufAt(vm).type # MB_VOID /\ BufPosFits(vm)) =>
        LET bi == ToNat(BufIdxAt(vm))
            pos == ToNat(BufPosAt(vm))
            type == BufAt(vm).type
            src == FrameVar(vm, vm.sp, OperandAt(vm))
        IN  IF SourceAccepted(vm)
            THEN /\ step_status' = VM_OK
                 /\ \A j \in (0 .. 255) \ {bi} : Membuf(vm', j) = Membuf(vm, j)
                 /\ Membuf(vm', bi).type = type
                 /\ \A k \in 0 .. 255 :
                      BufByte(Membuf(vm', bi), k) =
                        IF k \in (pos * Width(type)) .. (pos * Width(type) + Width(type) - 1)
                        THEN src.val[k - pos * Width(type) + 1]
                        ELSE BufByte(Membuf(vm, bi), k)
                 /\ DOMAIN vm'.g_membuf \subseteq 0 .. 255
                 /\ DOMAIN Membuf(vm', bi).buf \subseteq 0 .. 255
                 /\ vm'.stack_frames = vm.stack_frames
            ELSE /\ step_status' = VM_ERR_TYPE_MISMATCH
                 /\ vm' = [vm EXCEPT !.last_error = VM_ERR_TYPE_MISMATCH]

\* After LOAD_I s0, w; BUF_WRITE s0, bi, pos; BUF_READ s1, bi, pos; HALT
\* has run to its HALT, s1 holds the element written
C26_ReadBack ==
    (RunReturned /\ ret = VM_OK /\ vm.pc = 32
     /\ ProgByte(vm, 8) = OP_BUF_WRITE /\ ProgByte(vm, 20) = OP_BUF_READ) =>
        LET type == Membuf(vm, ToNat(ProgWord(vm, 12))).type
            src == FrameVar(vm, 0, 0)
        IN  FrameVar(vm, 0, 1) = MkVal(ReadTag(type), Narrowed(type, src.val))

(***************************************************************************)
(* C26: buffer round trip.  On a non-Void buffer, a successful BUF_WRITE   *)
(* src, bi, pos followed by BUF_READ dest, bi, pos yields the element      *)
(* written: U32(v mod 256) for a U8 buffer and U32(v mod 65536) for a U16  *)
(* buffer, for a U32 or I32 source v; the source itself, tag and value,    *)
(* for I32, U32 and F32 buffers.  A source tag the element type does not   *)
(* accept returns TypeMismatch with the buffer unchanged, and a            *)
(* successful write changes no other element of any buffer.                *)
(***************************************************************************)
C26_RoundTrip == [](C26_ReadBack) /\ [][C26_WriteStep]_vars

\* I32 -2 written to element 5 of the U8 buffer b5 has been read back as
\* U32 254, the bytes around it being as before
C26_Witness ==
    /\ Loaded(P_BufRW(OP_LOAD_I_I32, <<254, 255, 255, 255>>, N(5), N(5)))
    /\ RunReturned /\ ret = VM_OK
    /\ FrameVar(vm, 0, 1) = MkVal(V_U32, <<254, 0, 0, 0>>)
    /\ BufByte(Membuf(vm, 5), 4) = 66 /\ BufByte(Membuf(vm, 5), 6) = 66

\* The string a U8 buffer holds: its bytes before the first NUL, all 256
\* when there is none
TextLen(b) ==
    IF \A k \in 0 .. 255 : BufByte(b, k) # 0 THEN 256
    ELSE CHOOSE n \in 0 .. 255 :
            BufByte(b, n) = 0 /\ \A k \in 0 .. (n - 1) : BufByte(b, k) # 0
TextOf(b) == [i \in 1 .. TextLen(b) |-> BufByte(b, i - 1)]

\* The first 255 bytes of a byte sequence
Cut255(s) == IF Len(s) > 255 THEN SubSeq(s, 1, 255) ELSE s

\* Both sources of the STR_CAT at pc are U8 buffers
CatSourcesAt(v) ==
    /\ BufIdxFits(v) /\ FitsNat(Imm2At(v)) /\ ToNat(Imm2At(v)) < 256
    /\ BufAt(v).type = MB_U8 /\ Membuf(v, ToNat(Imm2At(v))).type = MB_U8

(***************************************************************************)
(* C27: STR_CAT dest, a, b with a and b tagged U8 succeeds, tags dest U8   *)
(* and leaves in dest the bytes of string a followed by the bytes of       *)
(* string b, both as they were before the instruction, cut to 255 bytes    *)
(* and followed by a NUL; this for all dest, a, b, dest = a and dest = b   *)
(* included.                                                               *)
(***************************************************************************)
C27_CatStep ==
    (StepCalled /\ AtOpcode(vm, OP_STR_CAT) /\ CatSourcesAt(vm)) =>
        LET dest == Membuf(vm', OperandAt(vm))
            text == Cut255(TextOf(BufAt(vm))
                           \o TextOf(Membuf(vm, ToNat(Imm2At(vm)))))
        IN  /\ step_status' = VM_OK
            /\ dest.type = MB_U8
            /\ \A k \in 1 .. Len(text) : BufByte(dest, k - 1) = text[k]
            /\ BufByte(dest, Len(text)) = 0

C27_StrCat == [][C27_CatStep]_vars

\* STR_CAT b1, b0, b1 over "Hello, " and "World!" has left
\* "Hello, Hello," in b1 and printed it
C27_Witness ==
    /\ Loaded(P_Cat(1, 0, 1)) /\ RunReturned /\ ret = VM_OK
    /\ Membuf(vm, 0) = FilledBuf(MB_U8, HelloBytes)
    /\ TextOf(Membuf(vm, 1)) = HelloBytes \o SubSeq(HelloBytes, 1, 6)
    /\ out = HelloBytes \o SubSeq(HelloBytes, 1, 6) \o <<10>>

(***************************************************************************)
(* C28: STR_LEN on a U8 buffer writes U32(n), n being the number of bytes  *)
(* before the first NUL, and n <= 255 whatever the buffer holds, also      *)
(* when STR_SET_CHR has made all of its 256 bytes non-NUL.                 *)
(***************************************************************************)
C28_LenStep ==
    (StepCalled /\ AtOpcode(vm, OP_STR_LEN) /\ OperandAt(vm) < 16
     /\ BufIdxFits(vm) /\ BufAt(vm).type = MB_U8) =>
        LET n == ToNat(FrameVar(vm', vm.sp, OperandAt(vm)).val)
        IN  /\ step_status' = VM_OK
            /\ FrameVar(vm', vm.sp, OperandAt(vm)).type = V_U32
            /\ n <= 255
            /\ BufByte(BufAt(vm), n) = 0
            /\ \A k \in 0 .. (n - 1) : BufByte(BufAt(vm), k) # 0

C28_StrLen == [][C28_LenStep]_vars

\* STR_SET_CHR b4, 255, 'X' has replaced the terminator of the 255-byte
\* string in b4, and STR_LEN s0, b4 has written U32 256
C28_Witness ==
    /\ Loaded(P_SetLen(4, 255, 88)) /\ RunReturned /\ ret = VM_OK
    /\ \A k \in 0 .. 255 : BufByte(Membuf(vm, 4), k) # 0
    /\ FrameVar(vm, 0, 0) = MkVal(V_U32, <<0, 1, 0, 0>>)

(***************************************************************************)
(* C29: the copy/compare law.  For a U8 buffer a holding a string of at    *)
(* most 255 bytes and any destination, a itself included, STR_COPY dest, a *)
(* followed by STR_CMP dest, a leaves exactly the Z flag, and the copy     *)
(* leaves a as it was.                                                     *)
(***************************************************************************)
C29_CopyStep ==
    (StepCalled /\ AtOpcode(vm, OP_STR_COPY) /\ BufIdxFits(vm)
     /\ BufAt(vm).type = MB_U8 /\ TextLen(BufAt(vm)) <= 255) =>
        /\ step_status' = VM_OK
        /\ Membuf(vm', ToNat(BufIdxAt(vm))) = BufAt(vm)
        /\ Membuf(vm', OperandAt(vm)).type = MB_U8
        /\ TextOf(Membuf(vm', OperandAt(vm))) = TextOf(BufAt(vm))
        /\ vm'.flags = vm.flags

\* STR_CMP dest, a comes right after STR_COPY dest, a at address 0
CopyThenCmpAt(v) ==
    /\ v.pc = 8 /\ AtOpcode(v, OP_STR_CMP) /\ ProgByte(v, 0) = OP_STR_COPY
    /\ ProgByte(v, 2) = 1
    /\ Imm1At(v) = N(ProgByte(v, 1)) /\ Imm2At(v) = ProgWord(v, 4)

C29_CmpStep ==
    (StepCalled /\ CopyThenCmpAt(vm) /\ vm.last_error = VM_OK
     /\ TextLen(Membuf(vm, ToNat(Imm2At(vm)))) <= 255) =>
        /\ step_status' = VM_OK
        /\ vm'.flags = FLAG_ZERO

C29_CopyCompare == [][C29_CopyStep /\ C29_CmpStep]_vars

\* The 255-byte string of b4 has been copied over the 256 bytes of b5 and
\* compared equal
C29_Witness ==
    /\ Loaded(P_CopyCmp(5, 4)) /\ RunReturned /\ ret = VM_OK
    /\ vm.flags = FLAG_ZERO
    /\ Membuf(vm, 5) = FilledBuf(MB_U8, Repeat(255, 65))
    /\ Membuf(vm, 4) = FilledBuf(MB_U8, Repeat(255, 65))

\* STR_CAT with U8 sources, the second one empty, gives dest the string of
\* the first source cut to 255 bytes and leaves every other buffer alone
C30_CatStep ==
    (StepCalled /\ AtOpcode(vm, OP_STR_CAT) /\ CatSourcesAt(vm)
     /\ BufByte(Membuf(vm, ToNat(Imm2At(vm))), 0) = 0) =>
        /\ step_status' = VM_OK
        /\ Membuf(vm', OperandAt(vm)).type = MB_U8
        /\ TextOf(Membuf(vm', OperandAt(vm))) = Cut255(TextOf(BufAt(vm)))
        /\ \A j \in (0 .. 255) \ {OperandAt(vm)} : Membuf(vm', j) = Membuf(vm, j)

\* pc is at the STR_CMP c, a of a program STR_CAT c, a, e; STR_CMP c, a;
\* HALT whose e is b3, which the host has set to the empty string, and the
\* STR_CAT has succeeded
CatEmptyThenCmpAt(v) ==
    /\ v.pc = 12 /\ v.last_error = VM_OK
    /\ \E p \in CatCmpPrograms : Loaded(p)

C30_CmpStep ==
    (StepCalled /\ CatEmptyThenCmpAt(vm)
     /\ TextLen(Membuf(vm, ToNat(Imm2At(vm)))) <= 255) =>
        /\ step_status' = VM_OK
        /\ vm'.flags = FLAG_ZERO

\* The STR_CMP c, a meets a buffer a of 256 non-NUL bytes: c is another
\* buffer (STR_CAT a, a, e would have cut a) and holds the first 255 of them
C30_CmpLongStep ==
    (StepCalled /\ CatEmptyThenCmpAt(vm)
     /\ TextLen(Membuf(vm, ToNat(Imm2At(vm)))) = 256) =>
        /\ step_status' = VM_OK
        /\ vm'.flags = FLAG_LESS
        /\ Imm1At(vm) # Imm2At(vm)

(***************************************************************************)
(* C30, amended: the empty-string identity holds for strings that fit.     *)
(* For a U8 buffer a holding a string of at most 255 bytes and a U8        *)
(* buffer e whose byte 0 is NUL, STR_CAT c, a, e followed by STR_CMP c, a  *)
(* leaves exactly the Z flag (for c = a it does so whatever a held, the    *)
(* STR_CAT having cut a itself).  For a buffer a of 256 non-NUL bytes and  *)
(* c different from a, c holds the first 255 of them and STR_CMP c, a      *)
(* leaves exactly the L flag.                                              *)
(***************************************************************************)
C30_EmptyIdentityFits == [][C30_CatStep /\ C30_CmpStep /\ C30_CmpLongStep]_vars

\* "Hello, " concatenated with the empty b3 into b5, over its 256 stale
\* bytes, has compared equal to b0
C30_Witness ==
    /\ Loaded(P_CatCmp(5, 0, 3)) /\ RunReturned /\ ret = VM_OK
    /\ vm.flags = FLAG_ZERO
    /\ TextOf(Membuf(vm, 5)) = HelloBytes /\ BufByte(Membuf(vm, 5), 8) = 66

C30_AnyContentStep ==
    (StepCalled /\ CatEmptyThenCmpAt(vm)) =>
        /\ step_status' = VM_OK
        /\ vm'.flags = FLAG_ZERO

(***************************************************************************)
(* C30 as stated: for every U8 buffer a, whatever it holds, and a U8       *)
(* buffer e whose byte 0 is NUL, STR_CAT c, a, e followed by STR_CMP c, a  *)
(* leaves exactly the Z flag.  A buffer a of 256 non-NUL bytes refutes     *)
(* it: c gets its first 255 bytes and compares less.                       *)
(***************************************************************************)
C30_EmptyIdentity == [][C30_AnyContentStep]_vars


\* s precedes t in lexicographic order of unsigned bytes: at the first
\* index where they differ s has the smaller byte, or s ends there and t
\* does not
LexLess(s, t) ==
    \E k \in 0 .. Len(s) :
        /\ k <= Len(t)
        /\ \A i \in 1 .. k : s[i] = t[i]
        /\ \/ k = Len(s) /\ k < Len(t)
           \/ k < Len(s) /\ k < Len(t) /\ s[k + 1] < t[k + 1]

\* Both buffer indices of the STR_CMP at pc exist
CmpBuffersAt(v) ==
    /\ BufIdxFits(v) /\ FitsNat(Imm2At(v)) /\ ToNat(Imm2At(v)) < 256

C31_CmpStep ==
    (StepCalled /\ AtOpcode(vm, OP_STR_CMP) /\ CmpBuffersAt(vm)) =>
        LET a == BufAt(vm)
            b == Membuf(vm, ToNat(Imm2At(vm)))
        IN  IF a.type = MB_U8 /\ b.type = MB_U8
            THEN /\ step_status' = VM_OK
                 /\ vm'.flags =
                        IF TextOf(a) = TextOf(b) THEN FLAG_ZERO
                        ELSE IF LexLess(TextOf(a), TextOf(b)) THEN FLAG_LESS
                        ELSE FLAG_GREATER
            ELSE /\ step_status' = VM_ERR_TYPE_MISMATCH
                 /\ vm'.flags = vm.flags

(***************************************************************************)
(* C31: STR_CMP a, b on two U8 buffers replaces the flags by exactly one   *)
(* of Z, L, G: Z when the strings (the bytes before the first NUL) are     *)
(* equal, L when a precedes b in the lexicographic order of unsigned       *)
(* bytes, a proper prefix preceding, G otherwise.  When either buffer is   *)
(* not U8 it returns TypeMismatch and the flags keep their value.          *)
(***************************************************************************)
C31_StrCmp == [][C31_CmpStep]_vars

\* After CMP_I32 7, 0 had set G, STR_CMP b0, b2 has compared "Hello, "
\* with "Hello, World!" and left L alone
C31_Witness ==
    /\ Loaded(P_StrCmp(7, 0, 0, 2)) /\ RunReturned /\ ret = VM_OK
    /\ TextOf(Membuf(vm, 0)) = HelloBytes
    /\ TextOf(Membuf(vm, 2)) = HelloBytes \o WorldBytes
    /\ vm.flags = FLAG_LESS

\* The buffer the string producer at pc writes: the operand of STR_CAT and
\* STR_COPY, the immediate of READ_STR
ProducerDest(v) ==
    IF AtOpcode(v, OP_READ_STR) THEN ToNat(BufIdxAt(v)) ELSE OperandAt(v)

\* The buffer holds the first 255 bytes of the line and then a NUL
HoldsLine(b, line) ==
    LET n == IF Len(line) < 255 THEN Len(line) ELSE 255
    IN  /\ \A k \in 1 .. n : BufByte(b, k - 1) = line[k]
        /\ BufByte(b, n) = 0

C32_ProducerStep ==
    (StepCalled /\ step_status' = VM_OK
     /\ (AtOpcode(vm, OP_STR_CAT) \/ AtOpcode(vm, OP_STR_COPY)
         \/ AtOpcode(vm, OP_READ_STR))) =>
        LET dest == Membuf(vm', ProducerDest(vm))
        IN  /\ dest.type = MB_U8
            /\ \E k \in 0 .. 255 : BufByte(dest, k) = 0
            /\ AtOpcode(vm, OP_READ_STR) =>
                   \E line \in LineSamples : HoldsLine(dest, line)

(***************************************************************************)
(* C32: string producers terminate their output.  After a successful       *)
(* STR_CAT, STR_COPY or READ_STR the destination buffer has tag U8 and a   *)
(* NUL among its bytes 0 .. 255, whatever the sources or the input held;   *)
(* READ_STR stores the bytes of the line, at most 255 of them, and then    *)
(* the NUL.                                                                *)
(***************************************************************************)
C32_Terminated == [][C32_ProducerStep]_vars

\* READ_STR b7 of a line of 300 bytes has left 255 of them and a NUL in b7,
\* now a U8 buffer, and STR_LEN has written U32 255
C32_Witness ==
    /\ Loaded(P_ReadStr(7)) /\ RunReturned /\ ret = VM_OK
    /\ Membuf(vm, 7).type = MB_U8
    /\ TextOf(Membuf(vm, 7)) = Repeat(255, 66)
    /\ FrameVar(vm, 0, 0) = MkVal(V_U32, N(255))

(***************************************************************************)
(* C33: vm_get_error_string returns a non-null string for every value of   *)
(* the vm_status_t enumeration, and the fallback string for every value    *)
(* beyond it.                                                              *)
(***************************************************************************)
C33_ErrorStrings ==
    last_call = "vm_get_error_string" =>
        /\ ~msg.ptr.null
        /\ msg.ptr.text # ""
        /\ msg.status > VM_ERR_HALT => msg.ptr = StrPtr("Unknown error")

\* vm_get_error_string(VM_ERR_OVERFLOW) has returned a null pointer
C33_Witness ==
    /\ last_call = "vm_get_error_string"
    /\ msg.status = VM_ERR_OVERFLOW
    /\ msg.ptr = NULL

(***************************************************************************)
(* C34: the legacy engine's vm_init(), from any prior contents of the      *)
(* global tables and however often it is called, leaves every string-pool  *)
(* length 0, every immediate and every integer variable 0, every           *)
(* variable-name entry with idx = -1, every condition-table entry with     *)
(* type 0 and op 0, and g_cond_count 0.                                    *)
(***************************************************************************)
C34_LegacyClean ==
    last_call \in LegacyInitCalls =>
        /\ \A i \in 0 .. (STR_POOL_CAPACITY - 1) :
               Get(legacy.g_string_pool.len, i, 0) = 0
        /\ \A i \in 0 .. (IMM_CAPACITY - 1) : Get(legacy.g_imm, i, 0) = 0
        /\ \A i \in 0 .. (INTVAR_CAPACITY - 1) : Get(legacy.g_intvar, i, 0) = 0
        /\ \A i \in 0 .. (VARNAME_CAPACITY - 1) :
               Get(legacy.g_varnames, i, ZeroVarname).idx = 0 - 1
        /\ \A i \in 0 .. (COND_CAPACITY - 1) :
               /\ Get(legacy.g_cond_table, i, ZeroCond).type = 0
               /\ Get(legacy.g_cond_table, i, ZeroCond).op = 0
        /\ legacy.g_cond_count = 0

\* vm_init() has run: the last variable name is unbound and of type
\* VAR_INT, and the tables are empty
C34_Witness ==
    /\ last_call = "legacy vm_init"
    /\ legacy.g_varnames[VARNAME_CAPACITY - 1] =
           [name |-> EmptyMap, type |-> VAR_INT, idx |-> 0 - 1]
    /\ legacy.g_string_pool.len = EmptyMap
    /\ legacy.g_cond_count = 0

\* The frames 1 .. sp hold the return addresses of the CALLs not yet
\* returned from, in the order of the calls
C35_Paired ==
    /\ Len(calls) = vm.sp
    /\ \A k \in 1 .. vm.sp : Frame(vm, k).return_addr = calls[k]

\* A successful CALL writes the address that follows it into the frame it
\* enters; no other vm_step call changes any frame's return_addr
C35_WriteStep ==
    StepCalled =>
        IF AtOpcode(vm, OP_CALL) /\ step_status' = VM_OK
        THEN /\ Frame(vm', vm.sp + 1).return_addr = NextPcAt(vm)
             /\ \A f \in (0 .. (STACK_DEPTH - 1)) \ {vm.sp + 1} :
                    Frame(vm', f).return_addr = Frame(vm, f).return_addr
        ELSE \A f \in 0 .. (STACK_DEPTH - 1) :
                 Frame(vm', f).return_addr = Frame(vm, f).return_addr

\* A successful RET goes to the address after the newest CALL not yet
\* returned from, at the depth that CALL was executed at
C35_RetStep ==
    (StepCalled /\ AtOpcode(vm, OP_RET) /\ step_status' = VM_OK) =>
        /\ calls # <<>>
        /\ vm'.pc = calls[Len(calls)]
        /\ vm'.sp = Len(calls) - 1

(***************************************************************************)
(* C35: call/return pairing.  In an execution of one loaded program from   *)
(* vm_init, CALL is the only instruction that writes a frame's             *)
(* return_addr, and each successful RET sets pc to the address following   *)
(* the most recent CALL not yet returned from and sp to its value before   *)
(* that CALL; STORE_S, STORE_RET and STORE_L aimed at any frame do not     *)
(* change where a RET returns.                                             *)
(***************************************************************************)
C35_Pairing == [](C35_Paired) /\ [][C35_WriteStep /\ C35_RetStep]_vars

\* Both calls of the program that stores U32 values into slot 15 of frame
\* 1 have returned, the inner one to 44 and the outer one to 16
C35_Witness ==
    /\ Loaded(P_Pairing(OP_STORE_S, Ref(1, 15))) /\ RunReturned /\ ret = VM_OK
    /\ vm.pc = 16 /\ vm.sp = 0 /\ calls = <<>>
    /\ Frame(vm, 1).return_addr = 16 /\ Frame(vm, 2).return_addr = 44
    /\ FrameVar(vm, 1, 15) = MkVal(V_U32, N(7))

\* Every buffer is untagged or a U8 buffer
C36_Tags == \A i \in 0 .. (G_MEMBUF_COUNT - 1) : Membuf(vm, i).type \in {MB_VOID, MB_U8}

\* A vm_step call that changes a buffer's tag is a successful STR_CAT or
\* STR_COPY changing its destination or a READ_STR changing its buffer,
\* and the new tag is U8
C36_TagStep ==
    StepCalled =>
        \A i \in 0 .. (G_MEMBUF_COUNT - 1) :
            Membuf(vm', i).type # Membuf(vm, i).type =>
                /\ Membuf(vm', i).type = MB_U8
                /\ step_status' = VM_OK
                /\ \/ AtOpcode(vm, OP_STR_CAT) /\ i = OperandAt(vm)
                   \/ AtOpcode(vm, OP_STR_COPY) /\ i = OperandAt(vm)
                   \/ AtOpcode(vm, OP_READ_STR) /\ BufIdxAt(vm) = N(i)

\* BUF_READ and BUF_WRITE with a slot and a buffer that exist return
\* TypeMismatch when the buffer is untagged, and change nothing
C36_AccessStep ==
    (StepCalled /\ (AtOpcode(vm, OP_BUF_READ) \/ AtOpcode(vm, OP_BUF_WRITE))
     /\ OperandAt(vm) < STACK_VAR_COUNT /\ BufIdxFits(vm)
     /\ BufAt(vm).type = MB_VOID) =>
        /\ step_status' = VM_ERR_TYPE_MISMATCH
        /\ vm' = [vm EXCEPT !.last_error = VM_ERR_TYPE_MISMATCH]

(***************************************************************************)
(* C36: in every state reachable from vm_init by executing bytecode each   *)
(* buffer's tag is Void or U8.  Only STR_CAT and STR_COPY, for their       *)
(* destination, and READ_STR change a tag, always to U8; BUF_WRITE and     *)
(* BUF_CLEAR never change one.  So a tag is Void exactly when none of the  *)
(* three has written the buffer, and BUF_WRITE and BUF_READ on such a      *)
(* buffer (slot and buffer index in range) return TypeMismatch.            *)
(***************************************************************************)
C36_OnlyStrings == [](C36_Tags) /\ [][C36_TagStep /\ C36_AccessStep]_vars

\* READ_STR, STR_COPY and STR_CAT have tagged b1, b2 and b3; BUF_WRITE and
\* BUF_CLEAR on b1 went through; BUF_READ on the untouched b4 has stopped
\* the run with TypeMismatch
C36_Witness ==
    /\ Loaded(P_Tags(OP_BUF_READ, OP_BUF_WRITE, 4)) /\ RunReturned
    /\ ret = VM_ERR_TYPE_MISMATCH /\ vm.pc = 56
    /\ Membuf(vm, 1).type = MB_U8 /\ Membuf(vm, 2).type = MB_U8
    /\ Membuf(vm, 3).type = MB_U8 /\ Membuf(vm, 4).type = MB_VOID

C37_LoadStep ==
    (last_call' = "vm_load_program" /\ ret' = VM_OK) =>
        /\ vm'.pc = 0
        /\ vm'.last_error = VM_OK
        /\ vm'.sp = vm.sp
        /\ vm'.flags = vm.flags
        /\ vm'.g_vars = vm.g_vars
        /\ vm'.g_membuf = vm.g_membuf
        /\ vm'.stack_frames = vm.stack_frames
        /\ out' = out

(***************************************************************************)
(* C37: a successful vm_load_program changes only program, program_len,    *)
(* pc (to 0) and last_error (to OK); sp, flags, the globals, the buffers   *)
(* and all frames, their saved return_addr values included, keep the       *)
(* values they had before the load.                                        *)
(***************************************************************************)
C37_LoadFrame == [][C37_LoadStep]_vars

\* After the recursion of the first program had overflowed the stack,
\* P_Dirty has been loaded: pc and last_error are reset, sp is still 31
\* and the frames still hold their return addresses
C37_Witness ==
    /\ last_call = "vm_load_program" /\ ret = VM_OK /\ loads = 2
    /\ Loaded(P_Dirty)
    /\ vm.pc = 0 /\ vm.last_error = VM_OK
    /\ vm.sp = STACK_DEPTH - 1
    /\ \A k \in 1 .. (STACK_DEPTH - 1) : Frame(vm, k).return_addr # 0

\* vm_reset leaves what vm_init leaves: in particular no program
C38_ResetState ==
    last_call = "vm_reset" =>
        /\ vm = vm_init
        /\ vm.program_len = 0 /\ vm.program = EmptyMap /\ vm.pc = 0

\* The call that follows vm_reset, vm_step or vm_run, returns InvalidPc at
\* once, having changed nothing but last_error
C38_NextCall ==
    (last_call = "vm_reset" /\ StepCalled) =>
        /\ step_status' = VM_ERR_INVALID_PC
        /\ ret' = VM_ERR_INVALID_PC
        /\ ~running'
        /\ vm' = [vm EXCEPT !.last_error = VM_ERR_INVALID_PC]
        /\ out' = out

(***************************************************************************)
(* C38: vm_reset is vm_init.  It discards the loaded program as well       *)
(* (program_len becomes 0), so vm_step or vm_run called after vm_reset     *)
(* without a new vm_load_program returns InvalidPc and executes nothing.   *)
(***************************************************************************)
C38_ResetDiscards == [](C38_ResetState) /\ [][C38_NextCall]_vars

\* A program had run and printed; after vm_reset, vm_run has returned
\* InvalidPc from an engine without a program
C38_Witness ==
    /\ last_call = "vm_run" /\ ~running /\ ret = VM_ERR_INVALID_PC
    /\ out # <<>>
    /\ vm = [vm_init EXCEPT !.last_error = VM_ERR_INVALID_PC]

\* The most recent vm_step call returned HALT and the host has called
\* nothing but vm_step and vm_run since
Halted == step_status = VM_ERR_HALT

\* Then pc addresses a HALT instruction, and a vm_run that has returned OK
\* has stopped there
C39_AtHalt ==
    /\ Halted => AtOpcode(vm, OP_HALT) /\ vm.last_error = VM_ERR_HALT
    /\ (RunReturned /\ ret = VM_OK) => Halted

\* A further vm_step returns HALT and a further vm_run returns OK, without
\* a second iteration, and neither changes the engine or prints
C39_FurtherCall ==
    (Halted /\ StepCalled) =>
        /\ step_status' = VM_ERR_HALT
        /\ ret' = IF last_call' = "vm_run" THEN VM_OK ELSE VM_ERR_HALT
        /\ ~running'
        /\ vm' = vm
        /\ out' = out

(***************************************************************************)
(* C39: HALT is absorbing.  HALT does not advance pc: once vm_step has     *)
(* returned HALT, or vm_run has returned OK, at any sp, pc still addresses *)
(* the HALT instruction, every further vm_step returns HALT and every      *)
(* further vm_run returns OK, and none of them changes any state.          *)
(***************************************************************************)
C39_HaltAbsorbs == [](C39_AtHalt) /\ [][C39_FurtherCall]_vars

\* P_Dirty, loaded after a recursion had left sp at 31, has run to its
\* HALT, its last instruction; a vm_step called there has returned HALT
C39_Witness ==
    /\ Loaded(P_Dirty) /\ Halted /\ last_call = "vm_step" /\ ret = VM_ERR_HALT
    /\ vm.sp = STACK_DEPTH - 1 /\ vm.pc = P_Dirty.len - 4
    /\ out # <<>>

\* The target of the jump at pc is not an address of the program
TargetOutside(v) ==
    ~FitsNat(Imm1At(v)) \/ ToNat(Imm1At(v)) >= v.program_len

\* A conditional jump to such a target: not taken, it returns OK and pc
\* moves to the next instruction; taken, it returns InvalidPc and pc stays
C40_OutsideStep ==
    \A op \in OP_JZ .. OP_JGE :
        (StepCalled /\ AtOpcode(vm, op) /\ TargetOutside(vm)) =>
            IF JumpCond(op, vm.flags)
            THEN /\ step_status' = VM_ERR_INVALID_PC
                 /\ vm' = [vm EXCEPT !.last_error = VM_ERR_INVALID_PC]
            ELSE /\ step_status' = VM_OK
                 /\ vm' = [vm EXCEPT !.pc = vm.pc + 4 + 4 * PayloadLenAt(vm),
                                     !.last_error = VM_OK]

\* JZ 300 at address 28 of a 52-byte program: after CMP_I32 7, 0 the run
\* goes on to PRINTLN and HALT; after CMP_I32 0, 0 it stops at the jump
\* with InvalidPc
C40_SameJump ==
    /\ (Loaded(P_Jump(TRUE, 7, 0, OP_JZ, 300)) /\ RunReturned) =>
           (ret = VM_OK /\ out = MainLines \o <<10>> /\ vm.pc = 40)
    /\ (Loaded(P_Jump(TRUE, 0, 0, OP_JZ, 300)) /\ RunReturned) =>
           (ret = VM_ERR_INVALID_PC /\ out = MainLines /\ vm.pc = 28)

(***************************************************************************)
(* C40: a conditional jump whose condition is false returns OK and         *)
(* advances pc by the instruction size without validating its target,      *)
(* even when the target is >= program_len; the target is checked           *)
(* (InvalidPc) only when the jump is taken, so the same instruction        *)
(* succeeds or fails depending on the flags.                               *)
(***************************************************************************)
C40_UntakenUnchecked == [](C40_SameJump) /\ [][C40_OutsideStep]_vars

\* With G set, JZ 300 has fallen through and the program has run to its
\* HALT
C40_Witness ==
    /\ Loaded(P_Jump(TRUE, 7, 0, OP_JZ, 300)) /\ RunReturned /\ ret = VM_OK
    /\ vm.flags = FLAG_GREATER /\ vm.pc = 40 /\ out = MainLines \o <<10>>

\* With Z set, the same JZ 300 has failed
C40_Taken ==
    /\ Loaded(P_Jump(TRUE, 0, 0, OP_JZ, 300)) /\ RunReturned
    /\ ret = VM_ERR_INVALID_PC /\ vm.flags = FLAG_ZERO /\ vm.pc = 28
====
